---- MODULE Spec2Model ----
(***************************************************************************)
(* devsocial-backend: the friendship graph and the activity aggregates of  *)
(* the two stores (PostgresDatabase and the in-memory Database), with the  *)
(* HTTP handlers that call them.  Every `await` of the PostgreSQL store is *)
(* one step of a worker; the in-memory store is synchronous, so each of    *)
(* its methods is one step.                                                *)
(***************************************************************************)
EXTENDS Integers, Sequences, FiniteSets, TLC

\* ------------------------------------------------------------------ bounds
MaxRequests == 2
MaxTicks == 1
MaxMerges == 3
MaxSyncs == 1
MaxFlagsOff == 2
MaxMessages == 2

Procs == {1, 2}
FirstProc == CHOOSE p \in Procs : \A q \in Procs : p <= q
UserIds == {1, 2, 3}
NoUser == 0
TargetNames == {"ANN", "bob", "cy", "zed"}
RequestIds == 1..(MaxRequests + 1)

StartNow == 23 * 3600 + 30 * 60
TickStep == 30 * 60

VARIABLES
  store,             \* "pg" (PostgresDatabase) or "mem" (Database)
  now,               \* the wall clock, in seconds (Date.now())
  users,             \* users table: id -> username
  friends,           \* friendships rows / User.friends: id -> list of friend ids
  friendRequests,    \* friend_requests rows; the id of a row is its index
  call,              \* per worker: the friendship operation it is running
  dailyActivities,   \* daily_activities rows, keyed <<userId, date>>
  hourlyActivities,  \* hourly_activities rows, keyed <<userId, date, hour>>
  job,               \* per worker: the updateActivity call it is running
  reports,           \* history: the updateActivity calls made so far
  settings,          \* users.settings: id -> the three sharing flags
  feed,              \* the getFriendsActivity call being answered
  userAchievements,  \* user_achievements rows
  unlock,            \* per worker: the checkAndUnlockAchievements call it runs
  timezone,          \* the time zone of the server process (TZ)
  lastCheck,         \* history: the state the last achievement check returned in
  sync,              \* the POST /api/activity/sync request being handled
  sockets,           \* socket.data.user of each connected user (friends as loaded)
  messages,          \* messages rows
  chat               \* the socket event being handled

vars == <<store, now, users, friends, friendRequests, call,
          dailyActivities, hourlyActivities, job, reports, settings, feed,
          userAchievements, unlock, timezone, lastCheck, sync, sockets, messages,
          chat>>
friendVars == <<friends, friendRequests, call>>
activityVars == <<dailyActivities, hourlyActivities, job, reports>>
feedVars == <<settings, feed>>
achievementVars == <<userAchievements, unlock, timezone, lastCheck>>
chatVars == <<sockets, messages, chat>>

\* ------------------------------------------------------------------ users
\* LOWER($1) of the SQL lookups / username.toLowerCase()
LOWER(s) ==
  CASE s = "Ann" -> "ann"
    [] s = "ANN" -> "ann"
    [] OTHER -> s

getUserByUsername(username) ==
  IF \E u \in DOMAIN users : LOWER(users[u]) = LOWER(username)
  THEN CHOOSE u \in DOMAIN users : LOWER(users[u]) = LOWER(username)
  ELSE NoUser

getUserById(id) == IF id \in DOMAIN users THEN id ELSE NoUser

\* ------------------------------------------------------------- sequences
Includes(s, x) == \E i \in DOMAIN s : s[i] = x
Filter(s, x) == SelectSeq(s, LAMBDA y : y # x)
Count(s, x) == Cardinality({i \in DOMAIN s : s[i] = x})

\* ------------------------------------------------------ call bookkeeping
NoRow == [fromUserId |-> NoUser, toUserId |-> NoUser, status |-> "none",
          respondedAt |-> 0]
NoTx == [update |-> 0, inserts |-> << >>]
IdleCall == [pc |-> "idle", op |-> "none", userId |-> NoUser,
             toUsername |-> "", toUser |-> NoUser, requestId |-> 0,
             request |-> NoRow, tx |-> NoTx, result |-> "none"]

\* a call that has thrown / returned: what the caller sees
Finish(c, result) ==
  [c EXCEPT !.pc = "done", !.result = result, !.tx = NoTx, !.request = NoRow,
            !.toUsername = ""]

\* a finished call returns to its caller in the same turn of the event loop:
\* no other step runs while a result is being returned
Quiet == \A q \in Procs : call[q].pc # "done"

\* worker p is resumed at the await it is suspended at
At(p, pc) == Quiet /\ call[p].pc = pc

\* an incoming request is handed to the first free worker
Free(p) ==
  /\ At(p, "idle")
  /\ \A q \in Procs : q < p => call[q].pc # "idle"

InFlightSends ==
  Cardinality({q \in Procs : call[q].op = "send" /\ call[q].pc # "done"})

\* ---- updateActivity bookkeeping
EmptyMap == << >>
NoActivity == [totalSeconds |-> -1, projects |-> EmptyMap, languages |-> EmptyMap,
               lastUpdate |-> 0]
NoReport == [totalSeconds |-> 0, projects |-> EmptyMap, languages |-> EmptyMap]
IdleJob == [pc |-> "idle", userId |-> NoUser, report |-> NoReport, date |-> 0,
            hour |-> 0, now |-> 0, existing |-> NoActivity, result |-> "none"]

\* the activity summaries the clients send (seconds, per project, per language)
Reports ==
  { [totalSeconds |-> 3600, projects |-> ("app" :> 3600), languages |-> ("go" :> 3600)],
    [totalSeconds |-> 1800, projects |-> ("app" :> 1800), languages |-> ("rust" :> 1800)],
    [totalSeconds |-> 60, projects |-> EmptyMap, languages |-> EmptyMap],
    [totalSeconds |-> 0, projects |-> ("web" :> 0), languages |-> EmptyMap] }

\* ---- getFriendsActivity bookkeeping
\* settings JSONB DEFAULT '{"shareActivity":true,"shareProjectName":true,...}'
DefaultSettings ==
  [shareActivity |-> TRUE, shareProjectName |-> TRUE, shareLanguage |-> TRUE]
\* order, seen and before are history: the order in which the keys of a map
\* were iterated, the daily_activities rows and the settings that were there
\* when the list was read, and the list that was answered before this one
NoSeen == [rows |-> << >>, settings |-> << >>]
NoAnswer == [userId |-> NoUser, now |-> 0, result |-> << >>, seen |-> NoSeen]
LastAnswer(f) ==
  [userId |-> f.userId, now |-> f.now, result |-> f.result, seen |-> f.seen]
IdleFeed == [pc |-> "idle", userId |-> NoUser, now |-> 0, result |-> << >>,
             order |-> << >>, seen |-> NoSeen, before |-> NoAnswer]

\* ---- checkAndUnlockAchievements bookkeeping
\* friends is user.friends.length of the user read at the start; atCall and
\* inserted are history: the user_achievements rows when the call was made, and
\* the achievements whose row this call's INSERT added
IdleUnlock == [pc |-> "idle", userId |-> NoUser, friends |-> 0, unlockedIds |-> {},
               index |-> 0, now |-> 0, newlyUnlocked |-> << >>, result |-> "none",
               atCall |-> << >>, inserted |-> {}]
\* ---- POST /api/activity/sync bookkeeping
NoSummary == [typeofTotal |-> "undefined", totalActiveSeconds |-> 0,
              projects |-> EmptyMap, languages |-> EmptyMap]
NoResponse == [status |-> 0, success |-> FALSE, todayTotal |-> 0,
               newAchievements |-> << >>]
\* before is history: the aggregates when the request arrived
IdleSync == [pc |-> "idle", userId |-> NoUser, summary |-> NoSummary,
             updated |-> FALSE, todayTotal |-> 0, response |-> NoResponse,
             before |-> [dailyActivities |-> << >>, hourlyActivities |-> << >>]]

\* ---- socket event bookkeeping
NoSocket == [connected |-> FALSE, friends |-> << >>]
IdleChat == [pc |-> "idle", event |-> "none", userId |-> NoUser, toUserId |-> NoUser,
             result |-> "none"]

NoCheck == [userId |-> NoUser, dailyActivities |-> << >>, friends |-> << >>,
            userAchievements |-> << >>]

\* ------------------------------------------------------------------- Init
Registered(n) == [u \in 1..n |-> CASE u = 1 -> "Ann" [] u = 2 -> "bob" [] OTHER -> "cy"]

InitWith(registered) ==
  /\ store \in {"pg", "mem"}
  /\ now = StartNow
  /\ users = registered
  /\ friends = [u \in UserIds |-> << >>]
  /\ friendRequests = << >>
  /\ call = [p \in Procs |-> IdleCall]
  /\ dailyActivities = << >>
  /\ hourlyActivities = << >>
  /\ job = [p \in Procs |-> IdleJob]
  /\ reports = [count |-> 0, expected |-> << >>]
  /\ settings = [u \in DOMAIN registered |-> DefaultSettings]
  /\ feed = IdleFeed
  /\ userAchievements = << >>
  /\ unlock = [p \in Procs |-> IdleUnlock]
  /\ timezone = "UTC"
  /\ lastCheck = NoCheck
  /\ sync = IdleSync
  /\ sockets = [u \in UserIds |-> NoSocket]
  /\ messages = << >>
  /\ chat = IdleChat

Init == InitWith(Registered(2))

\* Date.now(): the clock is observed only when it is read; a read returns the
\* last value read or a later one
DateNow(t) ==
  /\ t \in {now, now + TickStep}
  /\ t <= StartNow + MaxTicks * TickStep

\* the response has been sent; the worker takes the next request
Return(p) ==
  /\ call[p].pc = "done"
  /\ call' = [call EXCEPT ![p] = IdleCall]
  /\ UNCHANGED <<store, feedVars, achievementVars, sync, chatVars, now, users, friends, friendRequests, activityVars>>

\* =================================================== PostgresDatabase
\* ---- sendFriendRequest: lookup of the target and the self check
sendFriendRequest_lookup(c) ==
  LET toUser == getUserByUsername(c.toUsername) IN
  IF toUser = NoUser THEN Finish(c, "NotFound")
  ELSE IF c.userId = toUser THEN Finish([c EXCEPT !.toUser = toUser], "Self")
  ELSE [c EXCEPT !.pc = "sfr_friendship", !.toUser = toUser]

\* db.sendFriendRequest(fromUserId, toUsername) called directly
SendFriendRequest(p, fromUserId, toUsername) ==
  /\ store = "pg"
  /\ Free(p)
  /\ Len(friendRequests) + InFlightSends < MaxRequests
  /\ call' = [call EXCEPT ![p] =
       sendFriendRequest_lookup([IdleCall EXCEPT !.op = "send",
          !.userId = fromUserId, !.toUsername = toUsername])]
  /\ UNCHANGED <<store, feedVars, achievementVars, sync, chatVars, now, users, friends, friendRequests, activityVars>>

\* POST /api/friends/request: the handler's own checks, then the store call
\* with the target's stored username
PostFriendsRequest(p, user, username) ==
  /\ store = "pg"
  /\ Free(p)
  /\ Len(friendRequests) + InFlightSends < MaxRequests
  /\ LET targetUser == getUserByUsername(username)
         c == [IdleCall EXCEPT !.op = "send", !.userId = user,
                               !.toUsername = username]
     IN call' = [call EXCEPT ![p] =
          IF targetUser = NoUser THEN Finish(c, "NotFound")
          ELSE IF targetUser = user THEN Finish([c EXCEPT !.toUser = targetUser], "Self")
          ELSE sendFriendRequest_lookup([c EXCEPT !.toUsername = users[targetUser]])]
  /\ UNCHANGED <<store, feedVars, achievementVars, sync, chatVars, now, users, friends, friendRequests, activityVars>>

\* SELECT 1 FROM friendships WHERE user_id = $1 AND friend_id = $2
AlreadyFriends(fromUserId, toUserId) == Includes(friends[fromUserId], toUserId)

SendFriendshipCheck(p) ==
  /\ At(p, "sfr_friendship")
  /\ call' = [call EXCEPT ![p] =
       IF AlreadyFriends(call[p].userId, call[p].toUser)
       THEN Finish(call[p], "AlreadyFriends")
       ELSE [call[p] EXCEPT !.pc = "sfr_existing"]]
  /\ UNCHANGED <<store, feedVars, achievementVars, sync, chatVars, now, users, friends, friendRequests, activityVars>>

\* (bug variant: the lookup misses the requests of the opposite direction)
getPendingRequestOneWay(fromUserId, toUserId) ==
  {i \in DOMAIN friendRequests :
     /\ friendRequests[i].status = "pending"
     /\ friendRequests[i].fromUserId = fromUserId
     /\ friendRequests[i].toUserId = toUserId}

\* the pending-request lookup, in either direction
getPendingRequest(fromUserId, toUserId) ==
  {i \in DOMAIN friendRequests :
     /\ friendRequests[i].status = "pending"
     /\ \/ (friendRequests[i].fromUserId = fromUserId
            /\ friendRequests[i].toUserId = toUserId)
        \/ (friendRequests[i].fromUserId = toUserId
            /\ friendRequests[i].toUserId = fromUserId)}

SendExistingCheck(p) ==
  /\ At(p, "sfr_existing")
  /\ call' = [call EXCEPT ![p] =
       IF getPendingRequest(call[p].userId, call[p].toUser) # {}
       THEN Finish(call[p], "RequestExists")
       ELSE [call[p] EXCEPT !.pc = "sfr_insert"]]
  /\ UNCHANGED <<store, feedVars, achievementVars, sync, chatVars, now, users, friends, friendRequests, activityVars>>

NewRequest(fromUserId, toUserId) ==
  [fromUserId |-> fromUserId, toUserId |-> toUserId, status |-> "pending",
   respondedAt |-> 0]

SendInsert(p) ==
  /\ At(p, "sfr_insert")
  /\ friendRequests' =
       Append(friendRequests, NewRequest(call[p].userId, call[p].toUser))
  /\ call' = [call EXCEPT ![p] =
       Finish([call[p] EXCEPT !.requestId = Len(friendRequests) + 1], "ok")]
  /\ UNCHANGED <<store, feedVars, achievementVars, sync, chatVars, now, users, friends, activityVars>>

\* ---- acceptFriendRequest
RowOf(requestId) ==
  IF requestId \in DOMAIN friendRequests THEN friendRequests[requestId] ELSE NoRow

\* (bug variant: the status of the request is not checked)
acceptFriendRequest_checksNoStatus(request, userId) ==
  IF request = NoRow THEN "NotFound"
  ELSE IF request.toUserId # userId THEN "Forbidden"
  ELSE "ok"

\* the three checks on the selected row
acceptFriendRequest_checks(request, userId) ==
  IF request = NoRow THEN "NotFound"
  ELSE IF request.toUserId # userId THEN "Forbidden"
  ELSE IF request.status # "pending" THEN "AlreadyResponded"
  ELSE "ok"

\* SELECT * FROM friend_requests WHERE id = $1, the checks, pool.connect, BEGIN
AcceptSelect(p, requestId, userId) ==
  /\ store = "pg"
  /\ Free(p)
  /\ LET c == [IdleCall EXCEPT !.op = "accept", !.userId = userId,
                               !.requestId = requestId, !.request = RowOf(requestId)]
         outcome == acceptFriendRequest_checks(RowOf(requestId), userId)
     IN call' = [call EXCEPT ![p] =
          IF outcome = "ok" THEN [c EXCEPT !.pc = "acc_update"] ELSE Finish(c, outcome)]
  /\ UNCHANGED <<store, feedVars, achievementVars, sync, chatVars, now, users, friends, friendRequests, activityVars>>

InTransaction(c) ==
  c.pc \in {"acc_update", "acc_insert_from", "acc_insert_to", "acc_commit"}

\* another open transaction has updated this friend_requests row (row lock)
RowLocked(p, requestId) ==
  \E q \in Procs \ {p} :
    InTransaction(call[q]) /\ call[q].requestId = requestId /\ call[q].tx.update # 0

\* another open transaction has inserted this friendships key (unique index)
KeyLocked(p, key) ==
  \E q \in Procs \ {p} : InTransaction(call[q]) /\ Includes(call[q].tx.inserts, key)

\* (bug variant: the UPDATE runs on the pool, outside the transaction)
AcceptUpdateAutocommit(p) ==
  /\ At(p, "acc_update")
  /\ ~RowLocked(p, call[p].requestId)
  /\ \E t \in {now, now + TickStep} :
       /\ DateNow(t)
       /\ now' = t
       /\ friendRequests' = [friendRequests EXCEPT
            ![call[p].requestId].status = "accepted",
            ![call[p].requestId].respondedAt = t]
       /\ call' = [call EXCEPT ![p].tx.update = t, ![p].pc = "acc_insert_from"]
  /\ UNCHANGED <<store, feedVars, achievementVars, sync, chatVars, users, friends, activityVars>>

\* UPDATE friend_requests SET status = 'accepted', responded_at = $1, in the
\* transaction: invisible to the other connections until COMMIT
AcceptUpdate(p) ==
  /\ At(p, "acc_update")
  /\ ~RowLocked(p, call[p].requestId)
  /\ \E t \in {now, now + TickStep} :
       /\ DateNow(t)
       /\ now' = t
       /\ call' = [call EXCEPT ![p].tx.update = t, ![p].pc = "acc_insert_from"]
  /\ UNCHANGED <<store, feedVars, achievementVars, sync, chatVars, users, friends, friendRequests, activityVars>>

\* (bug variant: the row is written with the first user in both columns)
txInsertSameUser(c, userId, friendId) ==
  IF Includes(friends[userId], userId) \/ Includes(c.tx.inserts, <<userId, userId>>)
  THEN c.tx.inserts
  ELSE Append(c.tx.inserts, <<userId, userId>>)

\* INSERT INTO friendships ... ON CONFLICT DO NOTHING, in the transaction: the
\* conflict is decided against the rows committed when the statement runs
txInsert(c, userId, friendId) ==
  IF Includes(friends[userId], friendId) \/ Includes(c.tx.inserts, <<userId, friendId>>)
  THEN c.tx.inserts
  ELSE Append(c.tx.inserts, <<userId, friendId>>)

AcceptInsertFrom(p) ==
  /\ At(p, "acc_insert_from")
  /\ ~KeyLocked(p, <<call[p].request.fromUserId, call[p].request.toUserId>>)
  /\ call' = [call EXCEPT
       ![p].tx.inserts =
          txInsert(call[p], call[p].request.fromUserId, call[p].request.toUserId),
       ![p].pc = "acc_insert_to"]
  /\ UNCHANGED <<store, feedVars, achievementVars, sync, chatVars, now, users, friends, friendRequests, activityVars>>

\* (bug variant: the edge to -> from is not written)
AcceptInsertToSkipped(p) ==
  /\ At(p, "acc_insert_to")
  /\ call' = [call EXCEPT ![p].pc = "acc_commit"]
  /\ UNCHANGED <<store, feedVars, achievementVars, sync, chatVars, now, users, friends, friendRequests, activityVars>>

AcceptInsertTo(p) ==
  /\ At(p, "acc_insert_to")
  /\ ~KeyLocked(p, <<call[p].request.toUserId, call[p].request.fromUserId>>)
  /\ call' = [call EXCEPT
       ![p].tx.inserts =
          txInsert(call[p], call[p].request.toUserId, call[p].request.fromUserId),
       ![p].pc = "acc_commit"]
  /\ UNCHANGED <<store, feedVars, achievementVars, sync, chatVars, now, users, friends, friendRequests, activityVars>>

InsertRow(f, key) == [f EXCEPT ![key[1]] = Append(@, key[2])]

RECURSIVE InsertRows(_, _)
InsertRows(f, keys) ==
  IF keys = << >> THEN f ELSE InsertRows(InsertRow(f, Head(keys)), Tail(keys))

\* COMMIT: the buffered writes of the transaction become visible together
AcceptCommit(p) ==
  /\ At(p, "acc_commit")
  /\ friendRequests' = [friendRequests EXCEPT
       ![call[p].requestId].status = "accepted",
       ![call[p].requestId].respondedAt = call[p].tx.update]
  /\ friends' = InsertRows(friends, call[p].tx.inserts)
  /\ call' = [call EXCEPT ![p] = Finish(call[p], "ok")]
  /\ UNCHANGED <<store, feedVars, achievementVars, sync, chatVars, now, users, activityVars>>

\* a statement of the transaction fails (storage error, deadlock victim):
\* catch, ROLLBACK, rethrow
AcceptRollback(p) ==
  /\ Quiet
  /\ InTransaction(call[p])
  /\ call' = [call EXCEPT ![p] = Finish(call[p], "StorageError")]
  /\ UNCHANGED <<store, feedVars, achievementVars, sync, chatVars, now, users, friends, friendRequests, activityVars>>

\* ---- rejectFriendRequest
\* (bug variant: any user may respond to the request)
rejectFriendRequest_checksAnyUser(request, userId) ==
  IF request = NoRow THEN "NotFound" ELSE "ok"

\* the checks on the selected row: existence and recipient
rejectFriendRequest_checks(request, userId) ==
  IF request = NoRow THEN "NotFound"
  ELSE IF request.toUserId # userId THEN "Forbidden"
  ELSE "ok"

RejectSelect(p, requestId, userId) ==
  /\ store = "pg"
  /\ Free(p)
  /\ LET c == [IdleCall EXCEPT !.op = "reject", !.userId = userId,
                               !.requestId = requestId, !.request = RowOf(requestId)]
         outcome == rejectFriendRequest_checks(RowOf(requestId), userId)
     IN call' = [call EXCEPT ![p] =
          IF outcome = "ok" THEN [c EXCEPT !.pc = "rej_update"] ELSE Finish(c, outcome)]
  /\ UNCHANGED <<store, feedVars, achievementVars, sync, chatVars, now, users, friends, friendRequests, activityVars>>

\* UPDATE friend_requests SET status = 'rejected', responded_at = $1 WHERE id = $2
RejectUpdate(p) ==
  /\ At(p, "rej_update")
  /\ ~RowLocked(p, call[p].requestId)
  /\ \E t \in {now, now + TickStep} :
       /\ DateNow(t)
       /\ now' = t
       /\ friendRequests' = [friendRequests EXCEPT
            ![call[p].requestId].status = "rejected",
            ![call[p].requestId].respondedAt = t]
  /\ call' = [call EXCEPT ![p] = Finish(call[p], "ok")]
  /\ UNCHANGED <<store, feedVars, achievementVars, sync, chatVars, users, friends, activityVars>>

\* ---- removeFriend: one DELETE of both directed rows
deleteFriendships(f, userId, friendId) ==
  [u \in UserIds |->
     IF u = userId /\ u = friendId THEN Filter(f[u], u)
     ELSE IF u = userId THEN Filter(f[u], friendId)
     ELSE IF u = friendId THEN Filter(f[u], userId)
     ELSE f[u]]

RemoveFriend(p, userId, friendId) ==
  /\ store = "pg"
  /\ Free(p)
  /\ friends' = deleteFriendships(friends, userId, friendId)
  /\ call' = [call EXCEPT ![p] =
       Finish([IdleCall EXCEPT !.op = "remove", !.userId = userId,
                               !.toUser = friendId], "ok")]
  /\ UNCHANGED <<store, feedVars, achievementVars, sync, chatVars, now, users, friendRequests, activityVars>>

\* ============================================== in-memory Database
\* every method is synchronous: one step from call to return
MemSendFriendRequest(p, fromUserId, toUserId) ==
  /\ store = "mem"
  /\ Free(p)
  /\ Len(friendRequests) < MaxRequests
  /\ LET c == [IdleCall EXCEPT !.op = "send", !.userId = fromUserId,
                               !.toUser = toUserId]
         outcome ==
           IF getUserById(fromUserId) = NoUser \/ getUserById(toUserId) = NoUser
           THEN "NotFound"
           ELSE IF Includes(friends[fromUserId], toUserId) THEN "AlreadyFriends"
           ELSE IF getPendingRequest(fromUserId, toUserId) # {} THEN "RequestExists"
           ELSE "ok"
     IN /\ friendRequests' =
             IF outcome = "ok"
             THEN Append(friendRequests, NewRequest(fromUserId, toUserId))
             ELSE friendRequests
        /\ call' = [call EXCEPT ![p] =
             Finish([c EXCEPT !.requestId =
                        IF outcome = "ok" THEN Len(friendRequests) + 1 ELSE 0],
                    outcome)]
  /\ UNCHANGED <<store, feedVars, achievementVars, sync, chatVars, now, users, friends, activityVars>>

\* friends.push unless friends.includes
pushFriend(f, userId, friendId) ==
  IF Includes(f[userId], friendId) THEN f
  ELSE [f EXCEPT ![userId] = Append(@, friendId)]

MemAcceptFriendRequest(p, requestId, userId) ==
  /\ store = "mem"
  /\ Free(p)
  /\ LET request == RowOf(requestId)
         c == [IdleCall EXCEPT !.op = "accept", !.userId = userId,
                               !.requestId = requestId, !.request = request]
         outcome == acceptFriendRequest_checks(request, userId)
     IN IF outcome = "ok"
        THEN /\ friends' = pushFriend(pushFriend(friends, request.fromUserId,
                                                 request.toUserId),
                                      request.toUserId, request.fromUserId)
             /\ \E t \in {now, now + TickStep} :
                  /\ DateNow(t)
                  /\ now' = t
                  /\ friendRequests' = [friendRequests EXCEPT
                       ![requestId].status = "accepted", ![requestId].respondedAt = t]
             /\ call' = [call EXCEPT ![p] = Finish(c, "ok")]
        ELSE /\ call' = [call EXCEPT ![p] = Finish(c, outcome)]
             /\ UNCHANGED <<now, friends, friendRequests>>
  /\ UNCHANGED <<store, feedVars, achievementVars, sync, chatVars, users, activityVars>>

MemRejectFriendRequest(p, requestId, userId) ==
  /\ store = "mem"
  /\ Free(p)
  /\ LET request == RowOf(requestId)
         c == [IdleCall EXCEPT !.op = "reject", !.userId = userId,
                               !.requestId = requestId, !.request = request]
         outcome == acceptFriendRequest_checks(request, userId)
     IN IF outcome = "ok"
        THEN /\ \E t \in {now, now + TickStep} :
                  /\ DateNow(t)
                  /\ now' = t
                  /\ friendRequests' = [friendRequests EXCEPT
                       ![requestId].status = "rejected", ![requestId].respondedAt = t]
             /\ call' = [call EXCEPT ![p] = Finish(c, "ok")]
        ELSE /\ call' = [call EXCEPT ![p] = Finish(c, outcome)]
             /\ UNCHANGED <<now, friendRequests>>
  /\ UNCHANGED <<store, feedVars, achievementVars, sync, chatVars, users, friends, activityVars>>

MemRemoveFriend(p, userId, friendId) ==
  /\ store = "mem"
  /\ Free(p)
  /\ LET c == [IdleCall EXCEPT !.op = "remove", !.userId = userId,
                               !.toUser = friendId]
     IN IF getUserById(userId) = NoUser \/ getUserById(friendId) = NoUser
        THEN /\ call' = [call EXCEPT ![p] = Finish(c, "NotFound")]
             /\ UNCHANGED friends
        ELSE /\ friends' = deleteFriendships(friends, userId, friendId)
             /\ call' = [call EXCEPT ![p] = Finish(c, "ok")]
  /\ UNCHANGED <<store, feedVars, achievementVars, sync, chatVars, now, users, friendRequests, activityVars>>

\* ================================================== specifications
FriendStep(p) ==
  \/ \E u \in DOMAIN users, n \in TargetNames : SendFriendRequest(p, u, n)
  \/ \E u \in DOMAIN users, n \in TargetNames : PostFriendsRequest(p, u, n)
  \/ SendFriendshipCheck(p)
  \/ SendExistingCheck(p)
  \/ SendInsert(p)
  \/ \E r \in RequestIds, u \in DOMAIN users : AcceptSelect(p, r, u)
  \/ AcceptUpdate(p)
  \/ AcceptInsertFrom(p)
  \/ AcceptInsertTo(p)
  \/ AcceptCommit(p)
  \/ AcceptRollback(p)
  \/ \E r \in RequestIds, u \in DOMAIN users : RejectSelect(p, r, u)
  \/ RejectUpdate(p)
  \/ \E u \in DOMAIN users, f \in UserIds \cup {NoUser} : RemoveFriend(p, u, f)
  \/ \E u \in DOMAIN users, t \in UserIds \cup {NoUser} : MemSendFriendRequest(p, u, t)
  \/ \E r \in RequestIds, u \in DOMAIN users : MemAcceptFriendRequest(p, r, u)
  \/ \E r \in RequestIds, u \in DOMAIN users : MemRejectFriendRequest(p, r, u)
  \/ \E u \in DOMAIN users, f \in UserIds \cup {NoUser} : MemRemoveFriend(p, u, f)
  \/ Return(p)

\* the pool of workers serving friendship requests concurrently
Next == \E p \in Procs : FriendStep(p)
Spec == Init /\ [][Next]_vars

\* one worker: the calls never overlap
NextSeq == FriendStep(FirstProc)
SpecSeq == Init /\ [][NextSeq]_vars

\* ======================================================= activity
\* date.toISOString().split("T")[0]: the UTC calendar day of a timestamp
getDateKey(timestamp) == timestamp \div 86400
\* now.getUTCHours()
getUTCHours(timestamp) == (timestamp % 86400) \div 3600

QuietJobs == \A q \in Procs : job[q].pc # "done"
JobAt(p, pc) == QuietJobs /\ job[p].pc = pc
JobFree(p) ==
  /\ JobAt(p, "idle")
  /\ \A q \in Procs : q < p => job[q].pc # "idle"
FinishJob(j, result) ==
  [j EXCEPT !.pc = "done", !.result = result, !.existing = NoActivity]

ReturnJob(p) ==
  /\ job[p].pc = "done"
  /\ job' = [job EXCEPT ![p] = IdleJob]
  /\ UNCHANGED <<store, feedVars, achievementVars, sync, chatVars, now, users, friendVars, dailyActivities, hourlyActivities,
                 reports>>

Get(m, k) == IF k \in DOMAIN m THEN m[k] ELSE 0
Put(m, k, v) == [x \in DOMAIN m \cup {k} |-> IF x = k THEN v ELSE m[x]]

\* (bug variant: a reported key replaces the stored seconds)
MergeMapReplace(existing, incoming) ==
  [k \in DOMAIN existing \cup DOMAIN incoming |->
     IF k \in DOMAIN incoming THEN incoming[k] ELSE existing[k]]

\* for (const [k, secs] of incoming) existing[k] = (existing[k] || 0) + secs
MergeMap(existing, incoming) ==
  [k \in DOMAIN existing \cup DOMAIN incoming |->
     IF k \in DOMAIN incoming THEN Get(existing, k) + incoming[k] ELSE existing[k]]

\* the aggregate a serial execution of the reported calls would hold
Expect(expected, key, report) ==
  LET old == IF key \in DOMAIN expected THEN expected[key]
             ELSE [totalSeconds |-> 0, projects |-> EmptyMap, languages |-> EmptyMap]
  IN Put(expected, key,
         [totalSeconds |-> old.totalSeconds + report.totalSeconds,
          projects |-> [k \in DOMAIN old.projects \cup DOMAIN report.projects |->
                          Get(old.projects, k) + Get(report.projects, k)],
          languages |-> [k \in DOMAIN old.languages \cup DOMAIN report.languages |->
                          Get(old.languages, k) + Get(report.languages, k)]])

Record(key, report) ==
  reports' = [count |-> reports.count + 1,
              expected |-> Expect(reports.expected, key, report)]

RowAt(table, key) == IF key \in DOMAIN table THEN table[key] ELSE NoActivity

\* ---- PostgresDatabase.updateActivity
\* date and now are taken, then SELECT * FROM daily_activities WHERE id = $1
UpdateActivitySelect(p, userId, report) ==
  /\ store = "pg"
  /\ JobFree(p)
  /\ reports.count < MaxMerges
  /\ \E t \in {now, now + TickStep} :
       /\ DateNow(t)
       /\ now' = t
       /\ job' = [job EXCEPT ![p] =
            [IdleJob EXCEPT !.pc = "ua_write", !.userId = userId, !.report = report,
               !.date = getDateKey(t), !.now = t,
               !.existing = RowAt(dailyActivities, <<userId, getDateKey(t)>>)]]
       /\ Record(<<userId, getDateKey(t)>>, report)
  /\ UNCHANGED <<store, feedVars, achievementVars, sync, chatVars, users, friendVars, dailyActivities, hourlyActivities>>

\* the row written from the row that was read: INSERT of the report when none
\* was read, otherwise UPDATE with the merged maps and the added total
WrittenRow(existing, report, lastUpdate) ==
  IF existing = NoActivity
  THEN [totalSeconds |-> report.totalSeconds, projects |-> report.projects,
        languages |-> report.languages, lastUpdate |-> lastUpdate]
  ELSE [totalSeconds |-> existing.totalSeconds + report.totalSeconds,
        projects |-> MergeMap(existing.projects, report.projects),
        languages |-> MergeMap(existing.languages, report.languages),
        lastUpdate |-> lastUpdate]

\* an INSERT of a key that is present violates the primary key
InsertFails(table, key, existing) == existing = NoActivity /\ key \in DOMAIN table

UpdateActivityWrite(p) ==
  /\ JobAt(p, "ua_write")
  /\ LET j == job[p]
         key == <<j.userId, j.date>>
     IN IF InsertFails(dailyActivities, key, j.existing)
        THEN /\ job' = [job EXCEPT ![p] = FinishJob(j, "DuplicateKey")]
             /\ UNCHANGED dailyActivities
        ELSE /\ dailyActivities' =
                  Put(dailyActivities, key, WrittenRow(j.existing, j.report, j.now))
             /\ job' = [job EXCEPT ![p] =
                  IF j.report.totalSeconds > 0
                  THEN [j EXCEPT !.pc = "uh_select", !.existing = NoActivity]
                  ELSE FinishJob(j, "ok")]
  /\ UNCHANGED <<store, feedVars, achievementVars, sync, chatVars, now, users, friendVars, hourlyActivities, reports>>

\* ---- PostgresDatabase.updateHourlyActivity
UpdateHourlySelect(p) ==
  /\ JobAt(p, "uh_select")
  /\ \E t \in {now, now + TickStep} :
       /\ DateNow(t)
       /\ now' = t
       /\ job' = [job EXCEPT ![p] =
            [job[p] EXCEPT !.pc = "uh_write", !.date = getDateKey(t),
               !.hour = getUTCHours(t),
               !.existing = RowAt(hourlyActivities,
                                  <<job[p].userId, getDateKey(t), getUTCHours(t)>>)]]
  /\ UNCHANGED <<store, feedVars, achievementVars, sync, chatVars, users, friendVars, dailyActivities, hourlyActivities, reports>>

UpdateHourlyWrite(p) ==
  /\ JobAt(p, "uh_write")
  /\ LET j == job[p]
         key == <<j.userId, j.date, j.hour>>
     IN IF InsertFails(hourlyActivities, key, j.existing)
        THEN /\ job' = [job EXCEPT ![p] = FinishJob(j, "DuplicateKey")]
             /\ UNCHANGED hourlyActivities
        ELSE /\ hourlyActivities' =
                  Put(hourlyActivities, key, WrittenRow(j.existing, j.report, 0))
             /\ job' = [job EXCEPT ![p] = FinishJob(j, "ok")]
  /\ UNCHANGED <<store, feedVars, achievementVars, sync, chatVars, now, users, friendVars, dailyActivities, reports>>

\* ---- Database.updateActivity (in memory): one synchronous step, daily only
MemUpdateActivity(p, userId, report) ==
  /\ store = "mem"
  /\ JobFree(p)
  /\ reports.count < MaxMerges
  /\ \E t \in {now, now + TickStep} :
       /\ DateNow(t)
       /\ now' = t
       /\ LET key == <<userId, getDateKey(t)>>
              activity == IF key \in DOMAIN dailyActivities THEN dailyActivities[key]
                          ELSE [totalSeconds |-> 0, projects |-> EmptyMap,
                                languages |-> EmptyMap, lastUpdate |-> t]
          IN /\ dailyActivities' = Put(dailyActivities, key,
                  [totalSeconds |-> activity.totalSeconds + report.totalSeconds,
                   projects |-> MergeMap(activity.projects, report.projects),
                   languages |-> MergeMap(activity.languages, report.languages),
                   lastUpdate |-> t])
             /\ job' = [job EXCEPT ![p] =
                  FinishJob([IdleJob EXCEPT !.userId = userId, !.report = report,
                               !.date = getDateKey(t), !.now = t], "ok")]
             /\ Record(key, report)
  /\ UNCHANGED <<store, feedVars, achievementVars, sync, chatVars, users, friendVars, hourlyActivities>>

ActivityStep(p) ==
  \/ \E u \in DOMAIN users, r \in Reports : UpdateActivitySelect(p, u, r)
  \/ UpdateActivityWrite(p)
  \/ UpdateHourlySelect(p)
  \/ UpdateHourlyWrite(p)
  \/ \E u \in DOMAIN users, r \in Reports : MemUpdateActivity(p, u, r)
  \/ ReturnJob(p)

\* concurrent activity syncs
NextMerge == \E p \in Procs : ActivityStep(p)
SpecMerge == Init /\ [][NextMerge]_vars

\* activity syncs that never overlap
NextMergeSeq == ActivityStep(FirstProc)
SpecMergeSeq == Init /\ [][NextMergeSeq]_vars

\* ================================================== friends' activity
\* PostgresDatabase: 2 * 60 * 1000 and 5 * 60 * 1000 ms
idleThreshold == 2 * 60
offlineThreshold == 5 * 60
\* Database (in memory): 10 * 60 * 1000 and 60 * 60 * 1000 ms
memIdleThreshold == 10 * 60
memOfflineThreshold == 60 * 60

\* a field that is absent from the record (undefined)
Undefined == "undefined"

\* the time that has passed since the clock was last read, when a friend list
\* is asked for
Elapsed == {0, 119, 120, 121, 299, 300, 301, 600, 3600}

\* (bug variant: the two branches carry each other's status)
statusOfSwapped(hasActivity, timeSinceActive, idle, offline) ==
  IF hasActivity /\ timeSinceActive < idle THEN "idle"
  ELSE IF hasActivity /\ timeSinceActive < offline THEN "online"
  ELSE "offline"

\* let status = "offline"; if (x && t < idle) "online"; else if (x && t < offline) "idle"
statusOf(hasActivity, timeSinceActive, idle, offline) ==
  IF hasActivity /\ timeSinceActive < idle THEN "online"
  ELSE IF hasActivity /\ timeSinceActive < offline THEN "idle"
  ELSE "offline"

\* the keys the max-seconds loop can end on: a key whose seconds are above 0 and
\* above or equal to every other; among equal ones, the first in iteration
\* order, which the storage decides
TopKeys(m) ==
  IF \E k \in DOMAIN m : m[k] > 0
  THEN {k \in DOMAIN m : \A x \in DOMAIN m : m[k] >= m[x]}
  ELSE {Undefined}

\* Object.entries(projects) / Map.forEach: the keys of a map come in the order
\* the storage keeps them in; two such orders of all keys
KeyOrders == {<<"app", "web", "go", "rust">>, <<"rust", "go", "web", "app">>}

\* (bug variant: a later key with the same seconds replaces the current one)
RECURSIVE maxEntryLast(_, _, _, _, _)
maxEntryLast(m, order, i, maxSeconds, current) ==
  IF i > Len(order) THEN current
  ELSE IF order[i] \in DOMAIN m /\ m[order[i]] >= maxSeconds /\ m[order[i]] > 0
  THEN maxEntryLast(m, order, i + 1, m[order[i]], order[i])
  ELSE maxEntryLast(m, order, i + 1, maxSeconds, current)

\* let maxSeconds = 0; for (const [proj, secs] of entries)
\*   if (secs > maxSeconds) { maxSeconds = secs; currentProject = proj }
RECURSIVE maxEntry(_, _, _, _, _)
maxEntry(m, order, i, maxSeconds, current) ==
  IF i > Len(order) THEN current
  ELSE IF order[i] \in DOMAIN m /\ m[order[i]] > maxSeconds
  THEN maxEntry(m, order, i + 1, m[order[i]], order[i])
  ELSE maxEntry(m, order, i + 1, maxSeconds, current)

\* the key the loop ends with when the entries come in this order
topKey(m, order) == maxEntry(m, order, 1, 0, Undefined)

\* every record of the list carries the project and the language that the
\* loops end with for this order of the keys
IteratedIn(activities, order, today) ==
  \A i \in DOMAIN activities :
    LET row == RowAt(dailyActivities, <<activities[i].id, today>>) IN
      /\ activities[i].currentProject \in {Undefined, topKey(row.projects, order)}
      /\ activities[i].currentLanguage \in {Undefined, topKey(row.languages, order)}

\* (bug variant: the seconds and the last update of the friend's aggregates are
\* reported)
BlankActivityLeaking(friendId) ==
  LET keys == {k \in DOMAIN dailyActivities : k[1] = friendId}
      top == IF keys = {} THEN NoActivity
             ELSE dailyActivities[CHOOSE k \in keys : \A x \in keys : k[2] >= x[2]]
  IN [id |-> friendId,
      activeSeconds |-> IF top = NoActivity THEN 0 ELSE top.totalSeconds,
      lastActive |-> top.lastUpdate, status |-> "offline",
      currentProject |-> Undefined, currentLanguage |-> Undefined]

\* the record of a friend who does not share activity
BlankActivity(friendId) ==
  [id |-> friendId, activeSeconds |-> 0, lastActive |-> 0, status |-> "offline",
   currentProject |-> Undefined, currentLanguage |-> Undefined]

\* (bug variant: the project is surfaced whatever shareProjectName is)
rowToActivityAnyProject(friendId, today, t) ==
  LET row == RowAt(dailyActivities, <<friendId, today>>)
      total == IF row = NoActivity THEN 0 ELSE row.totalSeconds
      status == statusOf(total # 0, t - row.lastUpdate, idleThreshold, offlineThreshold)
  IN IF ~settings[friendId].shareActivity
     THEN {BlankActivity(friendId)}
     ELSE {[id |-> friendId, activeSeconds |-> total, lastActive |-> row.lastUpdate,
            status |-> status, currentProject |-> proj, currentLanguage |-> lang] :
             proj \in TopKeys(row.projects),
             lang \in (IF settings[friendId].shareLanguage
                       THEN TopKeys(row.languages) ELSE {Undefined})}

\* PostgresDatabase.getFriendsActivity, one row of the JOIN: the records it can
\* be mapped to
rowToActivity(friendId, today, t) ==
  LET row == RowAt(dailyActivities, <<friendId, today>>)
      total == IF row = NoActivity THEN 0 ELSE row.totalSeconds
      status == statusOf(total # 0, t - row.lastUpdate, idleThreshold, offlineThreshold)
  IN IF ~settings[friendId].shareActivity
     THEN {BlankActivity(friendId)}
     ELSE {[id |-> friendId, activeSeconds |-> total, lastActive |-> row.lastUpdate,
            status |-> status, currentProject |-> proj, currentLanguage |-> lang] :
             proj \in (IF settings[friendId].shareProjectName
                       THEN TopKeys(row.projects) ELSE {Undefined}),
             lang \in (IF settings[friendId].shareLanguage
                       THEN TopKeys(row.languages) ELSE {Undefined})}

\* Database.getFriendsActivity, the map callback
memFriendActivity(friendId, today, t) ==
  LET todayActivity == RowAt(dailyActivities, <<friendId, today>>)
      exists == todayActivity # NoActivity
      status == statusOf(exists, t - todayActivity.lastUpdate,
                         memIdleThreshold, memOfflineThreshold)
  IN IF ~settings[friendId].shareActivity
     THEN {BlankActivity(friendId)}
     ELSE {[id |-> friendId,
            activeSeconds |-> IF exists THEN todayActivity.totalSeconds ELSE 0,
            lastActive |-> todayActivity.lastUpdate, status |-> status,
            currentProject |-> IF status # "offline" THEN proj ELSE Undefined,
            currentLanguage |-> IF status # "offline" THEN lang ELSE Undefined] :
             proj \in (IF settings[friendId].shareProjectName
                       THEN TopKeys(todayActivity.projects) ELSE {Undefined}),
             lang \in (IF settings[friendId].shareLanguage
                       THEN TopKeys(todayActivity.languages) ELSE {Undefined})}

\* the lists whose i-th record is one of the records of the i-th friend
RECURSIVE MapFriends(_, _)
MapFriends(friendIds, records) ==
  IF friendIds = << >> THEN {<< >>}
  ELSE {<<r>> \o rest : r \in records[Head(friendIds)],
                        rest \in MapFriends(Tail(friendIds), records)}

\* const statusOrder = { online: 0, idle: 1, offline: 2 }
statusOrder(status) ==
  CASE status = "online" -> 0 [] status = "idle" -> 1 [] OTHER -> 2

\* the comparator of activities.sort: negative when a goes before b
compareActivity(a, b) ==
  IF statusOrder(a.status) # statusOrder(b.status)
  THEN statusOrder(a.status) - statusOrder(b.status)
  ELSE b.activeSeconds - a.activeSeconds

\* Array.prototype.sort with that comparator (stable)
RECURSIVE InsertSorted(_, _)
InsertSorted(sorted, x) ==
  IF sorted = << >> THEN <<x>>
  ELSE IF compareActivity(x, Head(sorted)) < 0 THEN <<x>> \o sorted
  ELSE <<Head(sorted)>> \o InsertSorted(Tail(sorted), x)

RECURSIVE sortActivities(_)
sortActivities(activities) ==
  IF activities = << >> THEN << >>
  ELSE InsertSorted(sortActivities(SubSeq(activities, 1, Len(activities) - 1)),
                    activities[Len(activities)])

\* the rows of a SELECT without ORDER BY come in any order
RowOrders(rows) ==
  {[i \in DOMAIN rows |-> rows[f[i]]] : f \in Permutations(DOMAIN rows)}

\* JOIN users u ON u.id = f.friend_id / if (!friend) return null ... filter
ExistingFriends(userId) == SelectSeq(friends[userId], LAMBDA f : f \in DOMAIN users)


\* PostgresDatabase.getFriendsActivity with the clock read as t: the JOIN is
\* read, each row is mapped and the list is sorted
FriendsActivityAt(userId, t) ==
  LET records == [f \in DOMAIN users |-> rowToActivity(f, getDateKey(t), t)]
  IN \E rows \in RowOrders(ExistingFriends(userId)), order \in KeyOrders :
       \E activities \in MapFriends(rows, records) :
         /\ IteratedIn(activities, order, getDateKey(t))
         /\ feed' = [pc |-> "done", userId |-> userId, now |-> t,
                     result |-> sortActivities(activities), order |-> order,
                     seen |-> [rows |-> dailyActivities, settings |-> settings],
                     before |-> LastAnswer(feed)]

\* PostgresDatabase.getFriendsActivity: today and now are taken, then the list
\* is built
GetFriendsActivity(userId) ==
  /\ store = "pg"
  /\ feed.pc = "idle"
  /\ \E e \in Elapsed : FriendsActivityAt(userId, now + e)
  /\ UNCHANGED <<store, achievementVars, sync, chatVars, settings, now, users, friendVars, activityVars>>

\* Database.getFriendsActivity with the clock read as t:
\* user.friends.map(...).filter(...), not sorted
MemFriendsActivityAt(userId, t) ==
  LET records == [f \in DOMAIN users |-> memFriendActivity(f, getDateKey(t), t)]
  IN \E activities \in MapFriends(ExistingFriends(userId), records),
        order \in KeyOrders :
       /\ IteratedIn(activities, order, getDateKey(t))
       /\ feed' = [pc |-> "done", userId |-> userId, now |-> t,
                   result |-> activities, order |-> order,
                   seen |-> [rows |-> dailyActivities, settings |-> settings],
                     before |-> LastAnswer(feed)]

\* Database.getFriendsActivity
MemGetFriendsActivity(userId) ==
  /\ store = "mem"
  /\ feed.pc = "idle"
  /\ \E e \in Elapsed : MemFriendsActivityAt(userId, now + e)
  /\ UNCHANGED <<store, achievementVars, sync, chatVars, settings, now, users, friendVars, activityVars>>

\* res.json({ success: true, friends: friendsActivity })
ReturnFeed ==
  /\ feed.pc = "done"
  /\ feed' = IdleFeed
  /\ UNCHANGED <<store, achievementVars, sync, chatVars, settings, now, users, friendVars, activityVars>>

\* ---- the sharing flags
SharingFlags == {"shareActivity", "shareProjectName", "shareLanguage"}
FlagsOff(st) == Cardinality({x \in (DOMAIN st) \X SharingFlags : ~st[x[1]][x[2]]})

\* PostgresDatabase.updateUserSettings: { ...user.settings, ...settings } is
\* written back with one UPDATE
UpdateUserSettings(userId, flag, value) ==
  /\ store = "pg"
  /\ feed.pc = "idle"
  /\ settings' = [settings EXCEPT ![userId][flag] = value]
  /\ settings' # settings
  /\ FlagsOff(settings') <= MaxFlagsOff
  /\ UNCHANGED <<store, achievementVars, sync, chatVars, feed, now, users, friendVars, activityVars>>

\* PATCH /api/user/settings on the in-memory store: the flags of the stored
\* user object are assigned in place
PatchUserSettings(userId, flag, value) ==
  /\ store = "mem"
  /\ feed.pc = "idle"
  /\ settings' = [settings EXCEPT ![userId][flag] = value]
  /\ settings' # settings
  /\ FlagsOff(settings') <= MaxFlagsOff
  /\ UNCHANGED <<store, achievementVars, sync, chatVars, feed, now, users, friendVars, activityVars>>

\* the hourly_activities rows of daily rows that were written at one hour
HourlyAt(history, hour) ==
  LET keys == {k \in DOMAIN history : history[k].totalSeconds > 0}
  IN [k \in {<<x[1], x[2], hour>> : x \in keys} |->
        [history[<<k[1], k[2]>>] EXCEPT !.lastUpdate = 0]]

\* ---- friend lists asked for between activity syncs and settings changes, one
\* call at a time; user 1 is friends with users 2 and 3 (two accepted requests)
InitFeedWith(history) ==
  /\ store \in {"pg", "mem"}
  /\ now = StartNow
  /\ users = Registered(3)
  /\ friends = <<<<2, 3>>, <<1>>, <<1>>>>
  /\ friendRequests =
       <<[fromUserId |-> 2, toUserId |-> 1, status |-> "accepted",
          respondedAt |-> StartNow],
         [fromUserId |-> 1, toUserId |-> 3, status |-> "accepted",
          respondedAt |-> StartNow]>>
  /\ call = [p \in Procs |-> IdleCall]
  /\ dailyActivities = history
  /\ hourlyActivities = HourlyAt(history, getUTCHours(StartNow))
  /\ job = [p \in Procs |-> IdleJob]
  /\ reports = [count |-> 0, expected |-> << >>]
  /\ settings = [u \in DOMAIN Registered(3) |-> DefaultSettings]
  /\ feed = IdleFeed
  /\ userAchievements = << >>
  /\ unlock = [p \in Procs |-> IdleUnlock]
  /\ timezone = "UTC"
  /\ lastCheck = NoCheck
  /\ sync = IdleSync
  /\ sockets = [u \in UserIds |-> NoSocket]
  /\ messages = << >>
  /\ chat = IdleChat

InitFeed == InitFeedWith(<< >>)

\* the user who asks for the list, and the users on it: they sync activity and
\* change their sharing flags
ListOwners == {u \in DOMAIN users : Len(friends[u]) > 1}
Listed == {f \in DOMAIN users : \E u \in ListOwners : Includes(friends[u], f)}

FeedStep ==
  \/ \E u \in ListOwners : GetFriendsActivity(u)
  \/ \E u \in ListOwners : MemGetFriendsActivity(u)
  \/ ReturnFeed
  \/ \E u \in Listed, flag \in SharingFlags, v \in BOOLEAN :
       UpdateUserSettings(u, flag, v)
  \/ \E u \in Listed, flag \in SharingFlags, v \in BOOLEAN :
       PatchUserSettings(u, flag, v)

SyncStep ==
  /\ feed.pc = "idle"
  /\ \/ /\ reports.count < MaxSyncs
        /\ \E u \in Listed, r \in Reports :
             \/ UpdateActivitySelect(FirstProc, u, r)
             \/ MemUpdateActivity(FirstProc, u, r)
     \/ UpdateActivityWrite(FirstProc)
     \/ UpdateHourlySelect(FirstProc)
     \/ UpdateHourlyWrite(FirstProc)
     \/ ReturnJob(FirstProc)

NextFeed == FeedStep \/ SyncStep
SpecFeed == InitFeed /\ [][NextFeed]_vars

\* ---- friend lists after a day of syncs: what friend 2 has on record for
\* today, last updated when the clock starts: two projects and two languages
\* with the same seconds; with different seconds; projects without seconds and
\* no language
TodayRows ==
  LET row(total, projects, languages) ==
        <<2, getDateKey(StartNow)>> :>
          [totalSeconds |-> total, projects |-> projects, languages |-> languages,
           lastUpdate |-> StartNow]
  IN { row(120, "app" :> 60 @@ "web" :> 60, "go" :> 60 @@ "rust" :> 60),
       row(180, "app" :> 60 @@ "web" :> 120, "go" :> 120 @@ "rust" :> 60),
       row(60, "app" :> 0 @@ "web" :> 0, EmptyMap) }

InitTop == \E history \in TodayRows : InitFeedWith(history)
SpecTop == InitTop /\ [][NextFeed]_vars

\* ---- friend lists asked for one after the other while the clock advances
\* the instants at which a list is asked for: around the thresholds of both
\* stores after a merge at StartNow and after one at the next UTC midnight
FeedTimes ==
  {StartNow + e : e \in {0, 120, 300, 600, 3600}} \cup
  {StartNow + TickStep + e : e \in {120, 300}}

\* PostgresDatabase.getFriendsActivity, the clock read being the last value
\* read or a later one
GetFriendsActivityLater(userId) ==
  /\ store = "pg"
  /\ feed.pc = "idle"
  /\ \E t \in FeedTimes :
       /\ t >= now
       /\ now' = t
       /\ FriendsActivityAt(userId, t)
  /\ UNCHANGED <<store, achievementVars, sync, chatVars, settings, users, friendVars, activityVars>>

\* Database.getFriendsActivity, the clock read being the last value read or a
\* later one
MemGetFriendsActivityLater(userId) ==
  /\ store = "mem"
  /\ feed.pc = "idle"
  /\ \E t \in FeedTimes :
       /\ t >= now
       /\ now' = t
       /\ MemFriendsActivityAt(userId, t)
  /\ UNCHANGED <<store, achievementVars, sync, chatVars, settings, users, friendVars, activityVars>>

\* res.json({ success: true, friends: friendsActivity }); what the list said
\* stays as history until the next list is built
ReturnFeedSeen ==
  /\ feed.pc = "done"
  /\ feed' = [feed EXCEPT !.pc = "idle", !.order = << >>, !.before = NoAnswer]
  /\ UNCHANGED <<store, achievementVars, sync, chatVars, settings, now, users, friendVars, activityVars>>

\* user 2 has synced at StartNow or not yet
SyncedAtStart ==
  <<2, getDateKey(StartNow)>> :>
    [totalSeconds |-> 60, projects |-> ("app" :> 60), languages |-> ("go" :> 60),
     lastUpdate |-> StartNow]
InitPresence == \E history \in {SyncedAtStart, << >>} : InitFeedWith(history)

PresenceStep ==
  \/ \E u \in ListOwners : GetFriendsActivityLater(u)
  \/ \E u \in ListOwners : MemGetFriendsActivityLater(u)
  \/ ReturnFeedSeen
  \/ \E u \in Listed, v \in BOOLEAN : UpdateUserSettings(u, "shareActivity", v)
  \/ \E u \in Listed, v \in BOOLEAN : PatchUserSettings(u, "shareActivity", v)

NextPresence == PresenceStep \/ SyncStep
SpecPresence == InitPresence /\ [][NextPresence]_vars

\* ---- PATCH /api/user/settings, the request handler
\* a settings request of worker p: user is the object that authenticateApiKey
\* put on the request
PatchCall(pc, userId, flag, value, user, result) ==
  [pc |-> pc, op |-> "patchSettings", userId |-> userId, flag |-> flag,
   value |-> value, user |-> user, result |-> result]

\* authenticateApiKey on the PostgreSQL store: await db.getUserByApiKey builds a
\* new user object from the row (rowToUser)
PatchAuthenticate(p, userId, flag, value) ==
  /\ store = "pg"
  /\ feed.pc = "idle"
  /\ call[p].pc = "idle"
  /\ call' = [call EXCEPT ![p] =
       PatchCall("patch", userId, flag, value, [settings |-> settings[userId]], "none")]
  /\ UNCHANGED <<store, feedVars, achievementVars, sync, chatVars, now, users, friends, friendRequests, activityVars>>

\* the handler on the PostgreSQL store: user.settings[flag] = value is assigned
\* on the request's object, no statement is sent to the database, and
\* res.json({ success: true, settings: user.settings })
PatchRespond(p) ==
  /\ feed.pc = "idle"
  /\ call[p].pc = "patch"
  /\ call' = [call EXCEPT ![p] =
       [@ EXCEPT !.pc = "done", !.result = "success",
                 !.user = [settings |-> [@.settings EXCEPT ![call[p].flag] = call[p].value]]]]
  /\ UNCHANGED <<store, feedVars, achievementVars, sync, chatVars, now, users, friends, friendRequests, activityVars>>

\* the request on the in-memory store: getUserByApiKey returns the stored
\* object, so the assignment changes the store
MemPatchSettings(p, userId, flag, value) ==
  /\ store = "mem"
  /\ feed.pc = "idle"
  /\ call[p].pc = "idle"
  /\ settings' = [settings EXCEPT ![userId][flag] = value]
  /\ call' = [call EXCEPT ![p] =
       PatchCall("done", userId, flag, value, [settings |-> settings'[userId]], "success")]
  /\ UNCHANGED <<store, feed, achievementVars, sync, chatVars, now, users, friends, friendRequests, activityVars>>

\* settings requests one at a time, friend lists and activity syncs; user 2 has
\* synced at StartNow or not yet
InitSettings == InitPresence

SettingsStep ==
  \/ \E u \in Listed, flag \in SharingFlags, v \in BOOLEAN :
       PatchAuthenticate(FirstProc, u, flag, v)
  \/ PatchRespond(FirstProc)
  \/ \E u \in Listed, flag \in SharingFlags, v \in BOOLEAN :
       MemPatchSettings(FirstProc, u, flag, v)
  \/ feed.pc = "idle" /\ Return(FirstProc)
  \/ \E u \in ListOwners : GetFriendsActivity(u)
  \/ \E u \in ListOwners : MemGetFriendsActivity(u)
  \/ ReturnFeed

NextSettings == SettingsStep \/ SyncStep
SpecSettings == InitSettings /\ [][NextSettings]_vars

\* =================================================== achievements
\* the seeded catalog, in the order of getAllAchievements (category, threshold):
\* one entry of each threshold type, and each of the "special" entries
Achievements ==
  <<[id |-> "lang_2", thresholdType |-> "language_count", thresholdValue |-> 2],
    [id |-> "friend_1", thresholdType |-> "friend_count", thresholdValue |-> 1],
    [id |-> "early_bird", thresholdType |-> "early_coding", thresholdValue |-> 1],
    [id |-> "night_owl", thresholdType |-> "night_coding", thresholdValue |-> 1],
    [id |-> "weekend_warrior", thresholdType |-> "weekend_coding", thresholdValue |-> 1],
    [id |-> "marathon", thresholdType |-> "daily_hours", thresholdValue |-> 8],
    [id |-> "streak_3", thresholdType |-> "streak_days", thresholdValue |-> 3],
    [id |-> "first_hour", thresholdType |-> "total_hours", thresholdValue |-> 1]>>

QuietUnlocks == \A q \in Procs : unlock[q].pc # "done"
UnlockAt(p, pc) == QuietUnlocks /\ unlock[p].pc = pc
UnlockFree(p) ==
  /\ UnlockAt(p, "idle")
  /\ \A q \in Procs : q < p => unlock[q].pc # "idle"

\* SELECT COALESCE(SUM(total_seconds), 0) FROM daily_activities WHERE user_id = $1
RECURSIVE SumSeconds(_, _)
SumSeconds(table, keys) ==
  IF keys = {} THEN 0
  ELSE LET k == CHOOSE x \in keys : TRUE
       IN table[k].totalSeconds + SumSeconds(table, keys \ {k})

ActivityKeys(userId) == {k \in DOMAIN dailyActivities : k[1] = userId}

\* ---- the local time of the server process: UTC, a zone that leaves
\* daylight saving time (UTC+2 to UTC+1) at 01:00 UTC of the day before the
\* clock's first day, or a zone five hours behind UTC all year
DstOffset == 2 * 3600
StdOffset == 3600
WestOffset == 0 - 5 * 3600
FallBack == (getDateKey(StartNow) - 1) * 86400 + 3600
TimeZones == {"UTC", "DST"}

\* LocalTime(t): the offset in force at the instant t
LocalTime(t) ==
  IF timezone = "UTC" THEN t
  ELSE IF timezone = "West" THEN t + WestOffset
  ELSE IF t < FallBack THEN t + DstOffset ELSE t + StdOffset

\* UTC(wall): the instant of a local wall-clock time; a wall time that occurs
\* twice is taken as the earlier instant
UTC(wall) ==
  IF timezone = "UTC" THEN wall
  ELSE IF timezone = "West" THEN wall - WestOffset
  ELSE IF wall - DstOffset < FallBack THEN wall - DstOffset ELSE wall - StdOffset

\* const d = new Date(expectedDate); d.setDate(d.getDate() - 1);
\* d.toISOString().split("T")[0]: midnight UTC of the date, one calendar day
\* back at the same local wall-clock time, the UTC date of that instant
PreviousDate(date) == getDateKey(UTC(LocalTime(date * 86400) - 86400))

\* new Date(row.date).getDay(): midnight UTC of the date, the day of the week
\* (0 Sunday .. 6 Saturday) of the local calendar day of that instant; day 0 of
\* the epoch is a Thursday
getDay(date) == (getDateKey(LocalTime(date * 86400)) + 4) % 7

\* (bug variant: the upper hour is included)
HourlyUpTo(userId, lo, hi) ==
  \E k \in DOMAIN hourlyActivities :
    /\ k[1] = userId
    /\ k[3] >= lo /\ k[3] <= hi
    /\ hourlyActivities[k].totalSeconds > 0

\* SELECT 1 FROM hourly_activities WHERE user_id = $1 AND hour >= $lo AND
\* hour < $hi AND total_seconds > 0 LIMIT 1
HourlyBetween(userId, lo, hi) ==
  \E k \in DOMAIN hourlyActivities :
    /\ k[1] = userId
    /\ k[3] >= lo /\ k[3] < hi
    /\ hourlyActivities[k].totalSeconds > 0

\* SELECT date FROM daily_activities WHERE user_id = $1 AND total_seconds > 0;
\* is one of the rows on the day of the week day
HasDay(userId, day) ==
  \E k \in ActivityKeys(userId) :
    dailyActivities[k].totalSeconds > 0 /\ getDay(k[2]) = day

\* SELECT DISTINCT date ... WHERE total_seconds > 0 ORDER BY date DESC
RECURSIVE OrderDesc(_)
OrderDesc(dates) ==
  IF dates = {} THEN << >>
  ELSE LET top == CHOOSE d \in dates : \A x \in dates : d >= x
       IN <<top>> \o OrderDesc(dates \ {top})

ActiveDates(userId) ==
  OrderDesc({k[2] : k \in {x \in ActivityKeys(userId) :
                              dailyActivities[x].totalSeconds > 0}})

\* for (const row of result.rows) { if (row.date === expectedDate) { streak++;
\* expectedDate = the day before } else break }
RECURSIVE streak(_, _)
streak(rows, expectedDate) ==
  IF rows = << >> THEN 0
  ELSE IF Head(rows) = expectedDate
  THEN 1 + streak(Tail(rows), PreviousDate(expectedDate))
  ELSE 0

\* (bug variant: total_hours is earned only above the threshold)
earnedAbove(ach, c, today) ==
  CASE ach.thresholdType = "total_hours" ->
         SumSeconds(dailyActivities, ActivityKeys(c.userId)) > ach.thresholdValue * 3600
    [] ach.thresholdType = "streak_days" ->
         streak(ActiveDates(c.userId), today) >= ach.thresholdValue
    [] ach.thresholdType = "language_count" ->
         Cardinality(UNION {DOMAIN dailyActivities[k].languages :
                              k \in ActivityKeys(c.userId)}) >= ach.thresholdValue
    [] ach.thresholdType = "friend_count" -> c.friends >= ach.thresholdValue
    [] ach.thresholdType = "daily_hours" ->
         \E k \in ActivityKeys(c.userId) :
           dailyActivities[k].totalSeconds >= ach.thresholdValue * 3600
    [] ach.thresholdType = "night_coding" -> HourlyBetween(c.userId, 0, 5)
    [] ach.thresholdType = "early_coding" -> HourlyBetween(c.userId, 5, 7)
    [] ach.thresholdType = "weekend_coding" ->
         HasDay(c.userId, 6) /\ HasDay(c.userId, 0)
    [] OTHER -> FALSE

\* the switch on ach.thresholdType, for the call c; today is getDateKey()
earned(ach, c, today) ==
  CASE ach.thresholdType = "total_hours" ->
         SumSeconds(dailyActivities, ActivityKeys(c.userId)) >= ach.thresholdValue * 3600
    [] ach.thresholdType = "streak_days" ->
         streak(ActiveDates(c.userId), today) >= ach.thresholdValue
    [] ach.thresholdType = "language_count" ->
         Cardinality(UNION {DOMAIN dailyActivities[k].languages :
                              k \in ActivityKeys(c.userId)}) >= ach.thresholdValue
    [] ach.thresholdType = "friend_count" -> c.friends >= ach.thresholdValue
    [] ach.thresholdType = "daily_hours" ->
         \E k \in ActivityKeys(c.userId) :
           dailyActivities[k].totalSeconds >= ach.thresholdValue * 3600
    [] ach.thresholdType = "night_coding" -> HourlyBetween(c.userId, 0, 5)
    [] ach.thresholdType = "early_coding" -> HourlyBetween(c.userId, 5, 7)
    [] ach.thresholdType = "weekend_coding" ->
         HasDay(c.userId, 6) /\ HasDay(c.userId, 0)
    [] OTHER -> FALSE

\* (bug variant: an achievement that is already unlocked is evaluated again)
NextIndexNoSkip(unlockedIds, i) == i

\* for (const ach of allAchievements) { if (unlockedIds.has(ach.id)) continue; ...
\* the next entry of the catalog that is evaluated, from position i on
RECURSIVE NextIndex(_, _)
NextIndex(unlockedIds, i) ==
  IF i > Len(Achievements) THEN i
  ELSE IF Achievements[i].id \in unlockedIds THEN NextIndex(unlockedIds, i + 1)
  ELSE i

\* the call goes on with the entry at position i, or returns newlyUnlocked
Advance(c, i) ==
  IF i > Len(Achievements) THEN [c EXCEPT !.pc = "done", !.index = 0, !.result = "ok"]
  ELSE [c EXCEPT !.pc = "query", !.index = i]

\* const user = await this.getUserById(userId); if (!user) return newlyUnlocked
\* (rowToUser reads the user's friendships rows)
CheckAndUnlockAchievements(p, userId) ==
  /\ store = "pg"
  /\ UnlockFree(p)
  /\ unlock' = [unlock EXCEPT ![p] =
       IF userId \in DOMAIN users
       THEN [IdleUnlock EXCEPT !.userId = userId, !.pc = "achievements",
                               !.friends = Len(friends[userId]),
                               !.atCall = userAchievements]
       ELSE [IdleUnlock EXCEPT !.userId = userId, !.pc = "done", !.result = "ok",
                               !.atCall = userAchievements]]
  /\ UNCHANGED <<store, feedVars, userAchievements, timezone, lastCheck, sync, chatVars, now, users,
                 friendVars, activityVars>>

\* const existingAchievements = await this.getUserAchievements(userId)
GetUserAchievements(p) ==
  /\ UnlockAt(p, "achievements")
  /\ unlock' = [unlock EXCEPT
       ![p].unlockedIds = {userAchievements[i].achievementId :
                             i \in {j \in DOMAIN userAchievements :
                                      userAchievements[j].userId = unlock[p].userId}},
       ![p].pc = "catalog"]
  /\ UNCHANGED <<store, feedVars, userAchievements, timezone, lastCheck, sync, chatVars, now, users,
                 friendVars, activityVars>>

\* const allAchievements = await this.getAllAchievements()
GetAllAchievements(p) ==
  /\ UnlockAt(p, "catalog")
  /\ unlock' = [unlock EXCEPT ![p] =
       Advance(unlock[p], NextIndex(unlock[p].unlockedIds, 1))]
  /\ UNCHANGED <<store, feedVars, userAchievements, timezone, lastCheck, sync, chatVars, now, users,
                 friendVars, activityVars>>

\* the query of the entry's threshold type returns; the clock is read in the
\* code that follows it (getDateKey() of the streak walk, Date.now() of the
\* INSERT); if earned, the INSERT is sent
EvaluateAchievement(p) ==
  /\ UnlockAt(p, "query")
  /\ LET c == unlock[p]
         ach == Achievements[c.index]
     IN \E t \in {now, now + TickStep} :
          /\ DateNow(t)
          /\ IF earned(ach, c, getDateKey(t))
             THEN /\ now' = t
                  /\ unlock' = [unlock EXCEPT ![p].pc = "insert", ![p].now = t]
             ELSE /\ now' = IF ach.thresholdType = "streak_days" THEN t ELSE now
                  /\ unlock' = [unlock EXCEPT ![p] =
                       Advance(c, NextIndex(c.unlockedIds, c.index + 1))]
  /\ UNCHANGED <<store, feedVars, userAchievements, timezone, lastCheck, sync, chatVars, users,
                 friendVars, activityVars>>

\* (bug variant: a plain INSERT into a table without the primary key)
insertUserAchievementAlways(rows, row) == Append(rows, row)

\* INSERT INTO user_achievements ... ON CONFLICT DO NOTHING, with
\* PRIMARY KEY (user_id, achievement_id)
insertUserAchievement(rows, row) ==
  IF \E i \in DOMAIN rows :
       rows[i].userId = row.userId /\ rows[i].achievementId = row.achievementId
  THEN rows
  ELSE Append(rows, row)

\* await this.pool.query(INSERT ...); newlyUnlocked.push(...)
InsertUserAchievement(p) ==
  /\ UnlockAt(p, "insert")
  /\ LET c == unlock[p]
         id == Achievements[c.index].id
     IN /\ userAchievements' = insertUserAchievement(userAchievements,
             [userId |-> c.userId, achievementId |-> id, unlockedAt |-> c.now])
        /\ unlock' = [unlock EXCEPT ![p] =
             Advance([c EXCEPT !.newlyUnlocked = Append(@, id),
                               !.inserted = IF userAchievements' # userAchievements
                                            THEN @ \cup {id} ELSE @],
                     NextIndex(c.unlockedIds, c.index + 1))]
  /\ UNCHANGED <<store, feedVars, timezone, lastCheck, sync, chatVars, now, users, friendVars,
                 activityVars>>

\* return newlyUnlocked
ReturnUnlock(p) ==
  /\ unlock[p].pc = "done"
  /\ unlock' = [unlock EXCEPT ![p] = IdleUnlock]
  /\ lastCheck' = [userId |-> unlock[p].userId, dailyActivities |-> dailyActivities,
                   friends |-> friends, userAchievements |-> userAchievements]
  /\ UNCHANGED <<store, feedVars, userAchievements, timezone, sync, chatVars, now,
                 users, friendVars, activityVars>>

UnlockStep(p) ==
  \/ \E u \in UserIds : CheckAndUnlockAchievements(p, u)
  \/ GetUserAchievements(p)
  \/ GetAllAchievements(p)
  \/ EvaluateAchievement(p)
  \/ InsertUserAchievement(p)
  \/ ReturnUnlock(p)

\* achievement checks that may overlap, between activity syncs (PostgreSQL
\* store; the in-memory store has no achievements)
InitUnlock == Init /\ store = "pg"

UnlockSyncStep ==
  \/ /\ reports.count < MaxSyncs
     /\ \E u \in DOMAIN users, r \in Reports : UpdateActivitySelect(FirstProc, u, r)
  \/ UpdateActivityWrite(FirstProc)
  \/ UpdateHourlySelect(FirstProc)
  \/ UpdateHourlyWrite(FirstProc)
  \/ ReturnJob(FirstProc)

NextUnlock == UnlockSyncStep \/ \E p \in Procs : UnlockStep(p)
SpecUnlock == InitUnlock /\ [][NextUnlock]_vars

\* ---- achievement checks one at a time, after earlier days of activity
\* a daily_activities row written at noon of an earlier day
PastRow(date, totalSeconds, languages) ==
  [totalSeconds |-> totalSeconds, projects |-> EmptyMap, languages |-> languages,
   lastUpdate |-> date * 86400 + 12 * 3600]

\* what user 1 has on record when the clock starts: nothing; three days in a
\* row up to today after a day without seconds; three days in a row up to
\* yesterday; today and the day before yesterday; one day of eight hours in two
\* languages
Histories ==
  LET D == getDateKey(StartNow)
      day(d, secs) == <<1, d>> :> PastRow(d, secs, IF secs > 0 THEN "go" :> secs
                                                   ELSE EmptyMap)
  IN { << >>,
       day(D, 60) @@ day(D - 1, 60) @@ day(D - 2, 60) @@ day(D - 3, 0),
       day(D - 1, 60) @@ day(D - 2, 60) @@ day(D - 3, 60),
       day(D, 60) @@ day(D - 1, 0) @@ day(D - 2, 60),
       <<1, D - 1>> :> PastRow(D - 1, 8 * 3600, "go" :> 3600 @@ "rust" :> 7 * 3600) }

\* the hourly_activities rows of those days (hour 12)
HourlyOf(history) ==
  LET keys == {k \in DOMAIN history : history[k].totalSeconds > 0}
  IN [k \in {<<x[1], x[2], 12>> : x \in keys} |->
        [history[<<k[1], k[2]>>] EXCEPT !.lastUpdate = 0]]

InitAchieve ==
  /\ store = "pg"
  /\ now = StartNow
  /\ users = Registered(2)
  /\ \E befriended \in BOOLEAN :
       /\ friends = [u \in UserIds |->
            IF befriended /\ u \in {1, 2} THEN <<3 - u>> ELSE << >>]
       /\ friendRequests =
            IF befriended
            THEN <<[fromUserId |-> 2, toUserId |-> 1, status |-> "accepted",
                    respondedAt |-> StartNow]>>
            ELSE << >>
  /\ call = [p \in Procs |-> IdleCall]
  /\ dailyActivities \in Histories
  /\ hourlyActivities = HourlyOf(dailyActivities)
  /\ job = [p \in Procs |-> IdleJob]
  /\ reports = [count |-> 0, expected |-> << >>]
  /\ settings = [u \in DOMAIN Registered(2) |-> DefaultSettings]
  /\ feed = IdleFeed
  /\ userAchievements = << >>
  /\ unlock = [p \in Procs |-> IdleUnlock]
  /\ timezone \in TimeZones
  /\ lastCheck = NoCheck
  /\ sync = IdleSync
  /\ sockets = [u \in UserIds |-> NoSocket]
  /\ messages = << >>
  /\ chat = IdleChat

\* a check starts when no sync is running, a sync runs when no check is
NextAchieve ==
  \/ /\ unlock[FirstProc].pc = "idle"
     /\ UnlockSyncStep
  \/ /\ job[FirstProc].pc = "idle"
     /\ UnlockStep(FirstProc)
SpecAchieve == InitAchieve /\ [][NextAchieve]_vars

\* ---- the "special" achievements: syncs in the early hours, after activity
\* on days of earlier weeks
\* the clock of a run starts at 04:30 or at 06:30 of the clock's first day
EarlyStarts == {4 * 3600 + 30 * 60, 6 * 3600 + 30 * 60}
EarlyTimes == {s + k * TickStep : s \in EarlyStarts, k \in 0..MaxTicks}
SpecialZones == TimeZones \cup {"West"}

\* what user 1 has on record (the clock's first day is a Thursday): nothing; the
\* Saturday and the Sunday before; two Saturdays; one Sunday; the Saturday of
\* one weekend and the Sunday of the next; a Sunday and the Monday after; a
\* Saturday, and a Sunday row without seconds
WeekendHistories ==
  LET D == getDateKey(StartNow)
      day(d, secs) == <<1, d>> :> PastRow(d, secs, IF secs > 0 THEN "go" :> secs
                                                   ELSE EmptyMap)
  IN { << >>,
       day(D - 5, 60) @@ day(D - 4, 60),
       day(D - 12, 60) @@ day(D - 5, 60),
       day(D - 4, 60),
       day(D - 12, 60) @@ day(D - 4, 60),
       day(D - 4, 60) @@ day(D - 3, 60),
       day(D - 5, 60) @@ day(D - 4, 0) }

InitSpecial ==
  /\ store = "pg"
  /\ now \in EarlyStarts
  /\ users = Registered(2)
  /\ friends = [u \in UserIds |-> << >>]
  /\ friendRequests = << >>
  /\ call = [p \in Procs |-> IdleCall]
  /\ dailyActivities \in WeekendHistories
  /\ hourlyActivities = HourlyOf(dailyActivities)
  /\ job = [p \in Procs |-> IdleJob]
  /\ reports = [count |-> 0, expected |-> << >>]
  /\ settings = [u \in DOMAIN Registered(2) |-> DefaultSettings]
  /\ feed = IdleFeed
  /\ userAchievements = << >>
  /\ unlock = [p \in Procs |-> IdleUnlock]
  /\ timezone \in SpecialZones
  /\ lastCheck = NoCheck
  /\ sync = IdleSync
  /\ sockets = [u \in UserIds |-> NoSocket]
  /\ messages = << >>
  /\ chat = IdleChat

\* as SpecAchieve; the clock readings of a run stay within MaxTicks ticks of
\* its start
NextSpecial ==
  \/ /\ unlock[FirstProc].pc = "idle"
     /\ UnlockSyncStep
     /\ now' \in EarlyTimes
  \/ /\ job[FirstProc].pc = "idle"
     /\ UnlockStep(FirstProc)
     /\ now' \in EarlyTimes
SpecSpecial == InitSpecial /\ [][NextSpecial]_vars

\* ======================================== POST /api/activity/sync
\* the request bodies: summary.totalActiveSeconds with its typeof, and the
\* entries of summary.projects and summary.languages
Summaries ==
  { [typeofTotal |-> "number", totalActiveSeconds |-> 3600,
     projects |-> ("app" :> 3600), languages |-> ("go" :> 3600)],
    [typeofTotal |-> "number", totalActiveSeconds |-> 0,
     projects |-> ("web" :> 60), languages |-> EmptyMap],
    [typeofTotal |-> "number", totalActiveSeconds |-> -60,
     projects |-> EmptyMap, languages |-> EmptyMap],
    [typeofTotal |-> "string", totalActiveSeconds |-> 0,
     projects |-> EmptyMap, languages |-> EmptyMap] }

\* the arguments of db.updateActivity: summary.totalActiveSeconds, projectsMap,
\* languagesMap
reportOf(summary) ==
  [totalSeconds |-> summary.totalActiveSeconds, projects |-> summary.projects,
   languages |-> summary.languages]

\* if (!summary || typeof summary.totalActiveSeconds !== "number") -> 400
validSummary(summary) == summary.typeofTotal = "number"

\* res.status(400).json({ success: false, message: "Invalid data format" })
\* and res.status(500).json({ success: false, message: "Server error" })
failure(status) == [NoResponse EXCEPT !.status = status]

\* the request arrives; the body is checked
PostActivitySync(userId, summary) ==
  /\ store = "pg"
  /\ sync.pc = "idle"
  /\ job[FirstProc].pc = "idle" /\ unlock[FirstProc].pc = "idle"
  /\ reports.count < MaxSyncs
  /\ LET s == [IdleSync EXCEPT !.userId = userId, !.summary = summary,
                 !.before = [dailyActivities |-> dailyActivities,
                             hourlyActivities |-> hourlyActivities]]
     IN sync' = IF validSummary(summary) THEN [s EXCEPT !.pc = "updateActivity"]
                ELSE [s EXCEPT !.pc = "done", !.response = failure(400)]
  /\ UNCHANGED <<store, feedVars, achievementVars, chatVars, now, users, friendVars,
                 activityVars>>

\* await db.updateActivity(user.id, summary.totalActiveSeconds, projectsMap, ...)
SyncUpdateActivity ==
  /\ sync.pc = "updateActivity"
  /\ job[FirstProc].pc = "idle"
  /\ UpdateActivitySelect(FirstProc, sync.userId, reportOf(sync.summary))

\* a statement of updateActivity or updateHourlyActivity fails (the store is
\* unavailable, a timeout): the query rejects, nothing is written by it
UpdateActivityFails(p) ==
  /\ QuietJobs
  /\ job[p].pc \in {"ua_write", "uh_select", "uh_write"}
  /\ job' = [job EXCEPT ![p] = FinishJob(job[p], "StorageError")]
  /\ UNCHANGED <<store, feedVars, achievementVars, sync, chatVars, now, users,
                 friendVars, dailyActivities, hourlyActivities, reports>>

\* updateActivity has settled: the handler goes on, or its catch answers 500
SyncUpdated ==
  /\ sync.pc = "updateActivity"
  /\ job[FirstProc].pc = "done"
  /\ sync' = IF job[FirstProc].result = "ok"
             THEN [sync EXCEPT !.pc = "reads", !.updated = TRUE]
             ELSE [sync EXCEPT !.pc = "done", !.response = failure(500)]
  /\ UNCHANGED <<store, feedVars, achievementVars, chatVars, now, users, friendVars,
                 activityVars>>

\* const todayActivity = await db.getTodayActivity(user.id) (and the week total
\* and the friends' activity, which are read and copied into the response)
SyncReads ==
  /\ sync.pc = "reads"
  /\ job[FirstProc].pc = "idle"
  /\ \E t \in {now, now + TickStep} :
       /\ DateNow(t)
       /\ now' = t
       /\ LET row == RowAt(dailyActivities, <<sync.userId, getDateKey(t)>>)
          IN sync' = [sync EXCEPT !.pc = "achievements",
                        !.todayTotal = IF row = NoActivity THEN 0 ELSE row.totalSeconds]
  /\ UNCHANGED <<store, feedVars, achievementVars, chatVars, users, friendVars,
                 activityVars>>

\* const newAchievements = await db.checkAndUnlockAchievements(user.id)
SyncCheckAchievements ==
  /\ sync.pc = "achievements"
  /\ unlock[FirstProc].pc = "idle"
  /\ CheckAndUnlockAchievements(FirstProc, sync.userId)

\* a query of checkAndUnlockAchievements fails: the call rejects
UnlockFails(p) ==
  /\ QuietUnlocks
  /\ unlock[p].pc \in {"achievements", "catalog", "query", "insert"}
  /\ unlock' = [unlock EXCEPT ![p].pc = "done", ![p].result = "StorageError",
                              ![p].index = 0]
  /\ UNCHANGED <<store, feedVars, userAchievements, timezone, lastCheck, sync,
                 chatVars, now, users, friendVars, activityVars>>

\* the response: success with the data read and the new achievements, or the
\* catch block's 500 when the call has thrown
syncResponse(s, c) ==
  IF c.result = "ok"
  THEN [status |-> 200, success |-> TRUE, todayTotal |-> s.todayTotal,
        newAchievements |-> c.newlyUnlocked]
  ELSE failure(500)

\* checkAndUnlockAchievements has settled: res.json(response), or the catch
SyncResponds ==
  /\ sync.pc = "achievements"
  /\ unlock[FirstProc].pc = "done"
  /\ sync' = [sync EXCEPT !.pc = "done",
                          !.response = syncResponse(sync, unlock[FirstProc])]
  /\ UNCHANGED <<store, feedVars, achievementVars, chatVars, now, users, friendVars,
                 activityVars>>

\* the response has been sent
SyncReturn ==
  /\ sync.pc = "done"
  /\ job[FirstProc].pc = "idle" /\ unlock[FirstProc].pc = "idle"
  /\ sync' = IdleSync
  /\ UNCHANGED <<store, feedVars, achievementVars, chatVars, now, users, friendVars,
                 activityVars>>

InitSync == Init /\ store = "pg"

\* one sync request at a time, with the steps of the store calls it awaits; the
\* handler takes the outcome of a call before the call's record is cleared
NextSync ==
  \/ \E u \in DOMAIN users, summary \in Summaries : PostActivitySync(u, summary)
  \/ SyncUpdateActivity
  \/ UpdateActivityWrite(FirstProc)
  \/ UpdateHourlySelect(FirstProc)
  \/ UpdateHourlyWrite(FirstProc)
  \/ UpdateActivityFails(FirstProc)
  \/ SyncUpdated
  \/ sync.pc # "updateActivity" /\ ReturnJob(FirstProc)
  \/ SyncReads
  \/ SyncCheckAchievements
  \/ GetUserAchievements(FirstProc)
  \/ GetAllAchievements(FirstProc)
  \/ EvaluateAchievement(FirstProc)
  \/ InsertUserAchievement(FirstProc)
  \/ UnlockFails(FirstProc)
  \/ SyncResponds
  \/ sync.pc # "achievements" /\ ReturnUnlock(FirstProc)
  \/ SyncReturn
SpecSync == InitSync /\ [][NextSync]_vars

\* ========================================================== messages
\* message contents: empty, and one that passes the content check
Contents == {"", "hi"}

\* io.use(...): socket.data.user = await db.getUserByApiKey(apiKey); the user
\* object, with the friends it had when it was loaded, lives as long as the
\* connection
Connect(userId) ==
  /\ store = "pg"
  /\ chat.pc = "idle" /\ call[FirstProc].pc = "idle"
  /\ ~sockets[userId].connected
  /\ sockets' = [sockets EXCEPT ![userId] =
                   [connected |-> TRUE, friends |-> friends[userId]]]
  /\ UNCHANGED <<store, feedVars, achievementVars, sync, messages, chat, now, users,
                 friendVars, activityVars>>

\* socket.on("disconnect", ...)
Disconnect(userId) ==
  /\ chat.pc = "idle"
  /\ sockets[userId].connected
  /\ sockets' = [sockets EXCEPT ![userId] = NoSocket]
  /\ UNCHANGED <<store, feedVars, achievementVars, sync, messages, chat, now, users,
                 friendVars, activityVars>>

\* if (!content || !content.trim() || content.length > 1000)
validContent(content) == content # ""

\* socket.on("send_message", ...): the content check, then the friendship
\* check against the friends of the user object of the connection
SendMessage(userId, toUserId, content) ==
  /\ chat.pc = "idle" /\ call[FirstProc].pc = "idle"
  /\ sockets[userId].connected
  /\ Len(messages) < MaxMessages
  /\ LET c == [IdleChat EXCEPT !.event = "send_message", !.userId = userId,
                               !.toUserId = toUserId]
     IN chat' =
          IF ~validContent(content)
          THEN [c EXCEPT !.pc = "done", !.result = "Invalid message content"]
          ELSE IF Includes(sockets[userId].friends, toUserId)
          THEN [c EXCEPT !.pc = "saveMessage"]
          ELSE [c EXCEPT !.pc = "getUserById"]
  /\ UNCHANGED <<store, feedVars, achievementVars, sync, sockets, messages, now,
                 users, friendVars, activityVars>>

\* const freshUser = await db.getUserById(user.id); the result is checked and
\* dropped, the user object of the connection stays as it was
SendFreshCheck ==
  /\ chat.pc = "getUserById"
  /\ chat' = IF /\ getUserById(chat.userId) # NoUser
                /\ Includes(friends[chat.userId], chat.toUserId)
             THEN [chat EXCEPT !.pc = "saveMessage"]
             ELSE [chat EXCEPT !.pc = "done", !.result = "Not friends with this user"]
  /\ UNCHANGED <<store, feedVars, achievementVars, sync, sockets, messages, now,
                 users, friendVars, activityVars>>

\* INSERT INTO messages (id, from_user_id, to_user_id, content, created_at);
\* read_at is NULL (0 here)
NewMessage(fromUserId, toUserId, t) ==
  [fromUserId |-> fromUserId, toUserId |-> toUserId, createdAt |-> t, readAt |-> 0]

\* const message = await db.saveMessage(user.id, toUserId, content.trim())
SaveMessage ==
  /\ chat.pc = "saveMessage"
  /\ \E t \in {now, now + TickStep} :
       /\ DateNow(t)
       /\ now' = t
       /\ messages' = Append(messages, NewMessage(chat.userId, chat.toUserId, t))
  /\ chat' = [chat EXCEPT !.pc = "done", !.result = "message_sent"]
  /\ UNCHANGED <<store, feedVars, achievementVars, sync, sockets, users, friendVars,
                 activityVars>>

\* (bug variant: the UPDATE without the read_at IS NULL condition)
markMessagesReadAgain(rows, userId, fromUserId, t) ==
  [i \in DOMAIN rows |->
     IF rows[i].toUserId = userId /\ rows[i].fromUserId = fromUserId
     THEN [rows[i] EXCEPT !.readAt = t]
     ELSE rows[i]]

\* UPDATE messages SET read_at = $1
\* WHERE to_user_id = $2 AND from_user_id = $3 AND read_at IS NULL
markMessagesRead(rows, userId, fromUserId, t) ==
  [i \in DOMAIN rows |->
     IF /\ rows[i].toUserId = userId
        /\ rows[i].fromUserId = fromUserId
        /\ rows[i].readAt = 0
     THEN [rows[i] EXCEPT !.readAt = t]
     ELSE rows[i]]

\* socket.on("mark_read", ...): await db.markMessagesRead(user.id, data.fromUserId)
MarkRead(userId, fromUserId) ==
  /\ chat.pc = "idle" /\ call[FirstProc].pc = "idle"
  /\ sockets[userId].connected
  /\ \E t \in {now, now + TickStep} :
       /\ DateNow(t)
       /\ now' = t
       /\ messages' = markMessagesRead(messages, userId, fromUserId, t)
  /\ chat' = [IdleChat EXCEPT !.pc = "done", !.event = "mark_read",
                              !.userId = userId, !.toUserId = fromUserId,
                              !.result = "messages_read"]
  /\ UNCHANGED <<store, feedVars, achievementVars, sync, sockets, users, friendVars,
                 activityVars>>

\* GET /api/messages/:friendId: getMessages, then
\* await db.markMessagesRead(user.id, friendId)
GetMessages(userId, friendId) ==
  /\ store = "pg"
  /\ chat.pc = "idle" /\ call[FirstProc].pc = "idle"
  /\ \E t \in {now, now + TickStep} :
       /\ DateNow(t)
       /\ now' = t
       /\ messages' = markMessagesRead(messages, userId, friendId, t)
  /\ chat' = [IdleChat EXCEPT !.pc = "done", !.event = "get_messages",
                              !.userId = userId, !.toUserId = friendId,
                              !.result = "ok"]
  /\ UNCHANGED <<store, feedVars, achievementVars, sync, sockets, users, friendVars,
                 activityVars>>

\* the event has been answered
ChatReturn ==
  /\ chat.pc = "done"
  /\ chat' = IdleChat
  /\ UNCHANGED <<store, feedVars, achievementVars, sync, sockets, messages, now,
                 users, friendVars, activityVars>>

InitChat == Init /\ store = "pg"

\* the friendship calls and the socket events, one at a time
NextChat ==
  \/ /\ chat.pc = "idle"
     /\ \/ \E u \in DOMAIN users, n \in TargetNames :
             SendFriendRequest(FirstProc, u, n)
        \/ SendFriendshipCheck(FirstProc)
        \/ SendExistingCheck(FirstProc)
        \/ SendInsert(FirstProc)
        \/ \E r \in RequestIds, u \in DOMAIN users : AcceptSelect(FirstProc, r, u)
        \/ AcceptUpdate(FirstProc)
        \/ AcceptInsertFrom(FirstProc)
        \/ AcceptInsertTo(FirstProc)
        \/ AcceptCommit(FirstProc)
        \/ \E u \in DOMAIN users, f \in DOMAIN users : RemoveFriend(FirstProc, u, f)
        \/ Return(FirstProc)
  \/ \E u \in DOMAIN users : Connect(u)
  \/ \E u \in DOMAIN users : Disconnect(u)
  \/ \E u \in DOMAIN users, t \in DOMAIN users, c \in Contents : SendMessage(u, t, c)
  \/ SendFreshCheck
  \/ SaveMessage
  \/ \E u \in DOMAIN users, f \in DOMAIN users : MarkRead(u, f)
  \/ \E u \in DOMAIN users, f \in DOMAIN users : GetMessages(u, f)
  \/ ChatReturn
SpecChat == InitChat /\ [][NextChat]_vars

\* ========================================================== createUser
\* the usernames asked for at registration (at least 3 characters of
\* [a-zA-Z0-9_])
NewNames == {"Ann", "ANN", "bob"}

\* const existingUser = await this.getUserByUsername(username);
\* if (existingUser) throw new Error("Username already taken")
CreateUser(p, username) ==
  /\ store = "pg"
  /\ Free(p)
  /\ Len(users) < Cardinality(UserIds)
  /\ call' = [call EXCEPT ![p] =
       IF getUserByUsername(username) # NoUser
       THEN Finish([IdleCall EXCEPT !.op = "createUser"], "Username already taken")
       ELSE [IdleCall EXCEPT !.op = "createUser", !.pc = "cu_insert",
                             !.toUsername = username]]
  /\ UNCHANGED <<store, feedVars, achievementVars, sync, chatVars, now, users, friends,
                 friendRequests, activityVars>>

\* username VARCHAR(50) UNIQUE NOT NULL: no row has this very name
usernameUnique(username) == \A u \in DOMAIN users : users[u] # username

\* await bcrypt.hash(password, 10), then INSERT INTO users (...): the row is
\* added with the next id and the default settings, or the INSERT fails on the
\* UNIQUE constraint
CreateUserInsert(p) ==
  /\ At(p, "cu_insert")
  /\ IF usernameUnique(call[p].toUsername) /\ Len(users) < Cardinality(UserIds)
     THEN /\ users' = Append(users, call[p].toUsername)
          /\ settings' = [u \in DOMAIN users' |->
                            IF u \in DOMAIN settings THEN settings[u]
                            ELSE DefaultSettings]
          /\ call' = [call EXCEPT ![p] =
               Finish([call[p] EXCEPT !.userId = Len(users')], "ok")]
     ELSE /\ call' = [call EXCEPT ![p] = Finish(call[p], "DuplicateKey")]
          /\ UNCHANGED <<users, settings>>
  /\ UNCHANGED <<store, feed, achievementVars, sync, chatVars, now, friends,
                 friendRequests, activityVars>>

\* Database.createUser: if (this.usersByUsername.has(username.toLowerCase()))
\* throw ...
MemCreateUser(p, username) ==
  /\ store = "mem"
  /\ Free(p)
  /\ Len(users) < Cardinality(UserIds)
  /\ call' = [call EXCEPT ![p] =
       IF getUserByUsername(username) # NoUser
       THEN Finish([IdleCall EXCEPT !.op = "createUser"], "Username already taken")
       ELSE [IdleCall EXCEPT !.op = "createUser", !.pc = "cu_set",
                             !.toUsername = username]]
  /\ UNCHANGED <<store, feedVars, achievementVars, sync, chatVars, now, users, friends,
                 friendRequests, activityVars>>

\* await bcrypt.hash(password, 10), then this.users.set(user.id, user) and the
\* two index maps
MemCreateUserSet(p) ==
  /\ At(p, "cu_set")
  /\ Len(users) < Cardinality(UserIds)
  /\ users' = Append(users, call[p].toUsername)
  /\ settings' = [u \in DOMAIN users' |->
                    IF u \in DOMAIN settings THEN settings[u] ELSE DefaultSettings]
  /\ call' = [call EXCEPT ![p] =
       Finish([call[p] EXCEPT !.userId = Len(users')], "ok")]
  /\ UNCHANGED <<store, feed, achievementVars, sync, chatVars, now, friends,
                 friendRequests, activityVars>>

\* registrations that may overlap, on an empty users table
InitUsers == InitWith(Registered(0))

NextUsers ==
  \E p \in Procs :
    \/ \E n \in NewNames : CreateUser(p, n)
    \/ CreateUserInsert(p)
    \/ \E n \in NewNames : MemCreateUser(p, n)
    \/ MemCreateUserSet(p)
    \/ Return(p)
SpecUsers == InitUsers /\ [][NextUsers]_vars


\* ========================================================== claims
Conflict == {"AlreadyFriends", "RequestExists", "AlreadyResponded"}
Friends(a, b) == Includes(friends[a], b)
PendingBetween(a, b) ==
  {i \in DOMAIN friendRequests :
     /\ friendRequests[i].status = "pending"
     /\ {friendRequests[i].fromUserId, friendRequests[i].toUserId} = {a, b}}
JobsFinished == \A p \in Procs : job[p].pc \in {"idle", "done"}

\* C1: once all updateActivity calls for a (user, date) have finished, the stored
\* total is the sum of their deltas, and none of them failed, whatever the
\* interleaving of their reads and writes.
C1_NoLostUpdate ==
  /\ \A p \in Procs : job[p].pc = "done" => job[p].result = "ok"
  /\ JobsFinished =>
       \A key \in DOMAIN reports.expected :
         /\ key \in DOMAIN dailyActivities
         /\ dailyActivities[key].totalSeconds = reports.expected[key].totalSeconds

\* C2: after updateActivity calls that do not overlap, every project and every
\* language of a (user, date) holds the sum of the seconds reported for it, and
\* the keys are those reported so far (none removed, none replaced).
C2_MergeSumsPerKey ==
  JobsFinished =>
    \A key \in DOMAIN reports.expected :
      /\ key \in DOMAIN dailyActivities
      /\ dailyActivities[key].totalSeconds = reports.expected[key].totalSeconds
      /\ dailyActivities[key].projects = reports.expected[key].projects
      /\ dailyActivities[key].languages = reports.expected[key].languages

C2_Witness ==
  /\ JobsFinished
  /\ \E key \in DOMAIN dailyActivities :
       /\ dailyActivities[key].totalSeconds = 5400
       /\ dailyActivities[key].projects = ("app" :> 5400)
       /\ dailyActivities[key].languages = ("go" :> 3600 @@ "rust" :> 1800)

\* C3: in every reachable state the friendship relation is symmetric.
C3_Symmetric == \A a, b \in UserIds : Friends(a, b) <=> Friends(b, a)

\* C6: at most one pending request between any two users, both directions counted.
C6_OnePendingPerPair ==
  \A a, b \in UserIds : Cardinality(PendingBetween(a, b)) <= 1

\* worker p returns from a call of operation op in this step
Returns(p, op) ==
  call[p].pc # "done" /\ call'[p].pc = "done" /\ call'[p].op = op

\* worker p is called with operation op in this step
Called(p, op) == call[p].pc = "idle" /\ call'[p].pc # "idle" /\ call'[p].op = op

\* C4: the three writes of acceptFriendRequest are all-or-nothing. A step of an
\* open accept transaction that is not its commit (a buffered write, a rollback
\* after a failed write) changes no visible row; the commit makes the status and
\* every edge the transaction wrote visible in one step, and none of those edges
\* was visible before it.
C4_AcceptAllOrNothing ==
  [][\A p \in Procs :
       (InTransaction(call[p]) /\ call'[p] # call[p]) =>
         IF call'[p].result = "ok"
         THEN /\ friendRequests'[call[p].requestId].status = "accepted"
              /\ friendRequests'[call[p].requestId].respondedAt = call[p].tx.update
              /\ call[p].tx.update # 0
              /\ \A i \in DOMAIN call[p].tx.inserts :
                   /\ ~Friends(call[p].tx.inserts[i][1], call[p].tx.inserts[i][2])
                   /\ Includes(friends'[call[p].tx.inserts[i][1]],
                               call[p].tx.inserts[i][2])
         ELSE friends' = friends /\ friendRequests' = friendRequests]_vars

\* an accept transaction holds all three writes while the request is still
\* pending and no edge is visible
C4_Witness ==
  \E p \in Procs :
    /\ call[p].pc = "acc_commit"
    /\ Len(call[p].tx.inserts) = 2
    /\ friendRequests[call[p].requestId].status = "pending"
    /\ ~Friends(call[p].request.fromUserId, call[p].request.toUserId)
    /\ ~Friends(call[p].request.toUserId, call[p].request.fromUserId)

\* C5: a request that is accepted or rejected never changes again (neither its
\* status nor its respondedAt).
C5_TerminalImmutable ==
  [][\A i \in DOMAIN friendRequests :
       friendRequests[i].status \in {"accepted", "rejected"} =>
         friendRequests'[i] = friendRequests[i]]_vars

\* C7: a successful accept leaves exactly one edge in each direction; an accept
\* by the recipient of a request that is already accepted fails with the
\* already-responded error and changes neither the edges nor the requests.
C7_SecondAcceptConflict ==
  [][\A p \in Procs :
       /\ (Returns(p, "accept") /\ call'[p].result = "ok") =>
            LET r == friendRequests'[call'[p].requestId] IN
              /\ Count(friends'[r.fromUserId], r.toUserId) = 1
              /\ Count(friends'[r.toUserId], r.fromUserId) = 1
       /\ (/\ Called(p, "accept")
           /\ call'[p].requestId \in DOMAIN friendRequests
           /\ friendRequests[call'[p].requestId].status = "accepted"
           /\ friendRequests[call'[p].requestId].toUserId = call'[p].userId) =>
            /\ call'[p].pc = "done"
            /\ call'[p].result = "AlreadyResponded"
            /\ friends' = friends
            /\ friendRequests' = friendRequests]_vars

\* the second accept has returned the conflict; one edge each way
C7_Witness ==
  \E p \in Procs :
    /\ call[p].pc = "done" /\ call[p].op = "accept"
    /\ call[p].result = "AlreadyResponded"
    /\ call[p].requestId \in DOMAIN friendRequests
    /\ LET r == friendRequests[call[p].requestId] IN
         /\ r.status = "accepted"
         /\ r.toUserId = call[p].userId
         /\ Count(friends[r.fromUserId], r.toUserId) = 1
         /\ Count(friends[r.toUserId], r.fromUserId) = 1

\* C8: when an accept of a pending request succeeds, the request is accepted,
\* its respondedAt is set and both edges exist.
C8_AcceptPostcondition ==
  [][\A p \in Procs :
       (Returns(p, "accept") /\ call'[p].result = "ok") =>
         LET r == friendRequests'[call'[p].requestId] IN
           /\ r.status = "accepted"
           /\ r.respondedAt # 0
           /\ Includes(friends'[r.fromUserId], r.toUserId)
           /\ Includes(friends'[r.toUserId], r.fromUserId)]_vars

C8_Witness ==
  \E p \in Procs :
    /\ call[p].pc = "done" /\ call[p].op = "accept" /\ call[p].result = "ok"
    /\ LET r == friendRequests[call[p].requestId] IN
         /\ r.status = "accepted" /\ r.respondedAt # 0
         /\ Friends(r.fromUserId, r.toUserId) /\ Friends(r.toUserId, r.fromUserId)

\* the outcome of a send call that returns in this step, by the state it ran in
SendOutcome(p, selfCreates) ==
  LET from == call'[p].userId
      to == call'[p].toUser
  IN IF to \notin DOMAIN users
     THEN call'[p].result = "NotFound" /\ friendRequests' = friendRequests
     ELSE IF Friends(from, to) \/ Friends(to, from) \/ PendingBetween(from, to) # {}
     THEN call'[p].result \in Conflict /\ friendRequests' = friendRequests
     ELSE IF from # to \/ selfCreates
     THEN /\ call'[p].result = "ok"
          /\ friendRequests' =
               Append(friendRequests, [fromUserId |-> from, toUserId |-> to,
                                       status |-> "pending", respondedAt |-> 0])
     ELSE TRUE

\* C9 as stated: Conflict when an edge or a pending request exists between the
\* two, NotFound when the target does not exist, otherwise exactly one new
\* pending request.
C9_SendOutcomeAsStated ==
  [][\A p \in Procs :
       Returns(p, "send") =>
         /\ friends' = friends
         /\ SendOutcome(p, TRUE)]_vars

\* C9, the last case restricted to a target other than the sender: Conflict,
\* NotFound as above, and exactly one new pending request otherwise when the
\* target is another user.
C9_SendOutcome ==
  [][\A p \in Procs :
       Returns(p, "send") =>
         /\ friends' = friends
         /\ SendOutcome(p, FALSE)]_vars

\* a send has been refused because the other user's request is pending
C9_Witness ==
  \E p \in Procs :
    /\ call[p].pc = "done" /\ call[p].op = "send"
    /\ call[p].result = "RequestExists"
    /\ \E i \in DOMAIN friendRequests :
         /\ friendRequests[i].status = "pending"
         /\ friendRequests[i].fromUserId = call[p].toUser
         /\ friendRequests[i].toUserId = call[p].userId

\* C10: a send whose target is the sender fails and creates no request.
C10_SelfRequestRefused ==
  \A p \in Procs :
    (call[p].pc = "done" /\ call[p].op = "send" /\ call[p].toUser = call[p].userId) =>
      /\ call[p].result \in Conflict \cup {"Self"}
      /\ call[p].requestId = 0
      /\ \A i \in DOMAIN friendRequests :
           ~(friendRequests[i].fromUserId = call[p].userId
             /\ friendRequests[i].toUserId = call[p].userId)

\* C11: an accept or a reject by a user who is not the recipient of the request
\* (its sender included) fails with the not-authorized error, one for an unknown
\* request id with NotFound; neither changes a request or an edge.
C11_OnlyRecipientResponds ==
  [][\A p \in Procs :
       (Called(p, "accept") \/ Called(p, "reject")) =>
         LET rid == call'[p].requestId IN
           /\ rid \notin DOMAIN friendRequests =>
                /\ call'[p].pc = "done" /\ call'[p].result = "NotFound"
                /\ friends' = friends /\ friendRequests' = friendRequests
           /\ (rid \in DOMAIN friendRequests
               /\ friendRequests[rid].toUserId # call'[p].userId) =>
                /\ call'[p].pc = "done" /\ call'[p].result = "Forbidden"
                /\ friends' = friends /\ friendRequests' = friendRequests]_vars

\* the sender of a pending request has tried to reject it and was refused
C11_Witness ==
  \E p \in Procs :
    /\ call[p].pc = "done" /\ call[p].op = "reject" /\ call[p].result = "Forbidden"
    /\ call[p].requestId \in DOMAIN friendRequests
    /\ friendRequests[call[p].requestId].fromUserId = call[p].userId
    /\ friendRequests[call[p].requestId].status = "pending"

\* the edges a step adds
AddedEdges ==
  {e \in UserIds \X UserIds : Count(friends'[e[1]], e[2]) > Count(friends[e[1]], e[2])}

\* C12: every step that adds an edge is the successful return of an accept of a
\* request that was pending when the accept read it, and the edges it adds join
\* the sender and the recipient of that request; no other operation adds an edge.
C12_EdgesOnlyByAccept ==
  [][AddedEdges # {} =>
       \E p \in Procs :
         /\ Returns(p, "accept") /\ call'[p].result = "ok"
         /\ LET r == IF call[p].request # NoRow THEN call[p].request
                     ELSE friendRequests[call'[p].requestId]
            IN /\ r.status = "pending"
               /\ \A e \in AddedEdges :
                    e \in {<<r.fromUserId, r.toUserId>>, <<r.toUserId, r.fromUserId>>}]_vars

\* both edges of an accepted request exist while no call is running
C12_Witness ==
  /\ \A p \in Procs : call[p].pc = "idle"
  /\ \E i \in DOMAIN friendRequests :
       /\ friendRequests[i].status = "accepted"
       /\ Friends(friendRequests[i].fromUserId, friendRequests[i].toUserId)
       /\ Friends(friendRequests[i].toUserId, friendRequests[i].fromUserId)

\* C13: removeFriend(A, B) succeeds whether or not A and B are friends, leaves
\* neither (A,B) nor (B,A), changes nothing when there was no edge between them,
\* touches no edge of another pair and no friend request.
C13_RemoveFriend ==
  [][\A p \in Procs :
       Returns(p, "remove") =>
         LET a == call'[p].userId
             b == call'[p].toUser
             HasEdge(f) == Includes(f[a], b) \/ (b \in UserIds /\ Includes(f[b], a))
         IN /\ call'[p].result = "ok"
            /\ ~HasEdge(friends')
            /\ ~HasEdge(friends) => friends' = friends
            /\ \A x, y \in UserIds :
                 {x, y} # {a, b} => Count(friends'[x], y) = Count(friends[x], y)
            /\ friendRequests' = friendRequests]_vars

\* C14: no user is their own friend and no friend request goes from a user to
\* the same user.
C14_NoSelfEdges ==
  /\ \A a \in UserIds : ~Friends(a, a)
  /\ \A i \in DOMAIN friendRequests :
       friendRequests[i].fromUserId # friendRequests[i].toUserId

\* the answered list and what it was computed from
Answered == feed.pc = "done"
TodayOf(f) == <<f, getDateKey(feed.now)>>
HasToday(f) == TodayOf(f) \in DOMAIN dailyActivities
SinceUpdate(f) == feed.now - dailyActivities[TodayOf(f)].lastUpdate

\* C15: a friend who shares activity is online iff an aggregate for today exists
\* and less than 2 minutes have passed since its lastUpdate, idle iff it exists
\* and at least 2 but less than 5 minutes have passed, offline otherwise.
C15_PresenceClassification ==
  Answered =>
    \A i \in DOMAIN feed.result :
      LET f == feed.result[i].id IN
        settings[f].shareActivity =>
          feed.result[i].status =
            IF HasToday(f) /\ SinceUpdate(f) < 2 * 60 THEN "online"
            ELSE IF HasToday(f) /\ SinceUpdate(f) < 5 * 60 THEN "idle"
            ELSE "offline"

\* the records of friend f in the answered list
RecordsOf(f) == {i \in DOMAIN feed.result : feed.result[i].id = f}

\* C16: a friend who does not share activity is on the list exactly once, with
\* status offline, zero seconds, no last activity, no project and no language,
\* whatever aggregates that friend has.
C16_HiddenFriendBlank ==
  Answered =>
    \A f \in DOMAIN users :
      (Includes(friends[feed.userId], f) /\ ~settings[f].shareActivity) =>
        /\ Cardinality(RecordsOf(f)) = 1
        /\ \A i \in RecordsOf(f) :
             feed.result[i] =
               [id |-> f, activeSeconds |-> 0, lastActive |-> 0, status |-> "offline",
                currentProject |-> "undefined", currentLanguage |-> "undefined"]

\* a friend who hides activity is listed blank while today's aggregate holds
\* seconds reported less than two minutes before
C16_Witness ==
  /\ Answered
  /\ \E f \in DOMAIN users :
       /\ RecordsOf(f) # {}
       /\ ~settings[f].shareActivity
       /\ HasToday(f)
       /\ dailyActivities[TodayOf(f)].totalSeconds > 0
       /\ dailyActivities[TodayOf(f)].projects # EmptyMap
       /\ SinceUpdate(f) < 2 * 60

\* C17: a record whose status is offline carries no project and no language.
C17_OfflineCarriesNothing ==
  Answered =>
    \A i \in DOMAIN feed.result :
      feed.result[i].status = "offline" =>
        /\ feed.result[i].currentProject = "undefined"
        /\ feed.result[i].currentLanguage = "undefined"

\* C18: no record shows a project of a friend whose shareProjectName is false,
\* nor a language of a friend whose shareLanguage is false, each flag on its own.
C18_FlagsHideNames ==
  Answered =>
    \A i \in DOMAIN feed.result :
      LET f == feed.result[i].id IN
        /\ ~settings[f].shareProjectName => feed.result[i].currentProject = "undefined"
        /\ ~settings[f].shareLanguage => feed.result[i].currentLanguage = "undefined"

\* an online friend who hides the project but not the language: the language
\* of today's aggregate is shown, its project is not
C18_Witness ==
  /\ Answered
  /\ \E i \in DOMAIN feed.result :
       LET f == feed.result[i].id IN
         /\ settings[f].shareActivity
         /\ ~settings[f].shareProjectName /\ settings[f].shareLanguage
         /\ feed.result[i].status = "online"
         /\ HasToday(f)
         /\ \E k \in DOMAIN dailyActivities[TodayOf(f)].projects :
              dailyActivities[TodayOf(f)].projects[k] > 0
         /\ feed.result[i].currentLanguage # "undefined"
         /\ feed.result[i].currentProject = "undefined"

\* online before idle before offline
Rank(status) == IF status = "online" THEN 0 ELSE IF status = "idle" THEN 1 ELSE 2

\* C19: the list is ordered by status rank ascending and, within a status, by
\* activeSeconds descending.
C19_ListOrdered ==
  Answered =>
    \A i \in DOMAIN feed.result :
      i + 1 \in DOMAIN feed.result =>
        LET x == feed.result[i]
            y == feed.result[i + 1]
        IN \/ Rank(x.status) < Rank(y.status)
           \/ Rank(x.status) = Rank(y.status) /\ x.activeSeconds >= y.activeSeconds

\* the user_achievements rows of one (user, achievement)
UnlockRecords(u, a) ==
  {i \in DOMAIN userAchievements :
     userAchievements[i].userId = u /\ userAchievements[i].achievementId = a}

\* C20: at most one unlock record per (user, achievement), whatever number of
\* achievement checks have run, one after the other or overlapping.
C20_OneUnlockRecord ==
  \A u \in UserIds : \A i \in DOMAIN Achievements :
    Cardinality(UnlockRecords(u, Achievements[i].id)) <= 1

\* a check returns an achievement whose record was written by an overlapping
\* check (another unlockedAt): its own INSERT met the conflict, one record exists
C20_Witness ==
  \E p \in Procs :
    /\ unlock[p].pc = "done"
    /\ \E a \in {Achievements[i].id : i \in DOMAIN Achievements} :
         /\ Includes(unlock[p].newlyUnlocked, a)
         /\ Cardinality(UnlockRecords(unlock[p].userId, a)) = 1
         /\ \A i \in UnlockRecords(unlock[p].userId, a) :
              userAchievements[i].unlockedAt # unlock[p].now

\* the achievements of user u that a list of user_achievements rows holds
UnlockedIn(rows, u) ==
  {rows[i].achievementId : i \in {j \in DOMAIN rows : rows[j].userId = u}}

\* C21: an achievement check returns without error and never returns an
\* achievement that was unlocked for the user when the call was made; a check
\* of the same user as the last returned check, with the daily aggregates and
\* the friendships as that check left them, returns the empty list and leaves
\* the unlock records as they were.
C21_SecondCheckEmpty ==
  \A p \in Procs :
    unlock[p].pc = "done" =>
      LET c == unlock[p] IN
        /\ c.result = "ok"
        /\ \A i \in DOMAIN c.newlyUnlocked :
             c.newlyUnlocked[i] \notin UnlockedIn(c.atCall, c.userId)
        /\ (/\ lastCheck.userId = c.userId
            /\ lastCheck.dailyActivities = dailyActivities
            /\ lastCheck.friends = friends) =>
             /\ c.newlyUnlocked = << >>
             /\ userAchievements = lastCheck.userAchievements

\* the second of two checks of a user returns the empty list; the first had
\* left unlock records of that user
C21_Witness ==
  \E p \in Procs :
    /\ unlock[p].pc = "done"
    /\ unlock[p].userId \in DOMAIN users
    /\ lastCheck.userId = unlock[p].userId
    /\ lastCheck.dailyActivities = dailyActivities
    /\ UnlockedIn(lastCheck.userAchievements, unlock[p].userId) # {}
    /\ unlock[p].newlyUnlocked = << >>
    /\ userAchievements = lastCheck.userAchievements

\* the number of consecutive days, from day backwards, on which user u has a
\* daily aggregate with a total above 0 (at most left days are looked at)
RECURSIVE ConsecutiveDays(_, _, _)
ConsecutiveDays(u, day, left) ==
  IF left = 0 \/ <<u, day>> \notin DOMAIN dailyActivities THEN 0
  ELSE IF dailyActivities[<<u, day>>].totalSeconds <= 0 THEN 0
  ELSE 1 + ConsecutiveDays(u, day - 1, left - 1)

\* C22: when a check evaluates a streak achievement, the streak it computes is
\* the number of consecutive calendar days ending today with a total above 0
\* (0 when today has none), and the achievement is earned iff that number is at
\* least the threshold.
C22_StreakDays ==
  [][\A p \in Procs :
       (/\ unlock[p].pc = "query"
        /\ Achievements[unlock[p].index].thresholdType = "streak_days"
        /\ unlock'[p] # unlock[p]) =>
         LET u == unlock[p].userId
             today == getDateKey(now')
             days == ConsecutiveDays(u, today, 8)
         IN /\ streak(ActiveDates(u), today) = days
            /\ (unlock'[p].pc = "insert") <=>
                 (days >= Achievements[unlock[p].index].thresholdValue)]_vars

\* the threshold of a catalog entry is met by user u in this state
ThresholdMet(ach, u) ==
  LET keys == {k \in DOMAIN dailyActivities : k[1] = u} IN
    CASE ach.thresholdType = "total_hours" ->
           SumSeconds(dailyActivities, keys) >= ach.thresholdValue * 3600
      [] ach.thresholdType = "language_count" ->
           Cardinality({l \in {"go", "rust"} :
                          \E k \in keys : l \in DOMAIN dailyActivities[k].languages})
             >= ach.thresholdValue
      [] ach.thresholdType = "friend_count" ->
           Cardinality({f \in UserIds : Includes(friends[u], f)}) >= ach.thresholdValue
      [] ach.thresholdType = "daily_hours" ->
           \E k \in keys : dailyActivities[k].totalSeconds >= ach.thresholdValue * 3600
      [] OTHER -> FALSE

\* C30: a check that no sync overlaps returns, of the catalog achievements of
\* the types total_hours, language_count, friend_count and daily_hours, exactly
\* those that were not unlocked when the call was made and whose threshold is
\* met; it appends one unlock record for each achievement it returns and writes
\* nothing else.
C30_ReturnsNewlyEarned ==
  \A p \in Procs :
    unlock[p].pc = "done" =>
      LET c == unlock[p]
          before == UnlockedIn(c.atCall, c.userId)
          new == c.newlyUnlocked
      IN /\ \A i \in DOMAIN Achievements :
              Achievements[i].thresholdType \in
                {"total_hours", "language_count", "friend_count", "daily_hours"} =>
                (Includes(new, Achievements[i].id) <=>
                   (/\ c.userId \in DOMAIN users
                    /\ Achievements[i].id \notin before
                    /\ ThresholdMet(Achievements[i], c.userId)))
         /\ \A i, j \in DOMAIN new : new[i] = new[j] => i = j
         /\ Len(userAchievements) = Len(c.atCall) + Len(new)
         /\ SubSeq(userAchievements, 1, Len(c.atCall)) = c.atCall
         /\ \A i \in DOMAIN new :
              /\ userAchievements[Len(c.atCall) + i].userId = c.userId
              /\ userAchievements[Len(c.atCall) + i].achievementId = new[i]

\* a check returns first_hour with a total of exactly one hour, and friend_1,
\* and not marathon, after an earlier check had unlocked something
C30_Witness ==
  \E p \in Procs :
    /\ unlock[p].pc = "done"
    /\ Includes(unlock[p].newlyUnlocked, "first_hour")
    /\ SumSeconds(dailyActivities, ActivityKeys(unlock[p].userId)) = 3600
    /\ ~Includes(unlock[p].newlyUnlocked, "marathon")
    /\ unlock[p].atCall # << >>
    /\ \E q \in Procs :
         unlock[q].pc = "done" /\ Includes(unlock[q].newlyUnlocked, "friend_1")

\* the sync request in flight has had its activity saved and its achievement
\* check has failed
CheckFailedAfterMerge ==
  /\ sync.pc = "done"
  /\ sync.updated
  /\ unlock[FirstProc].pc = "done"
  /\ unlock[FirstProc].result = "StorageError"

\* C23: a sync whose merge succeeded and whose achievement check failed is
\* answered as a success, with the saved total and no achievements.
C23_SyncSurvivesCheckFailure ==
  CheckFailedAfterMerge =>
    /\ sync.response.success
    /\ sync.response.status = 200
    /\ sync.response.newAchievements = << >>
    /\ sync.response.todayTotal = sync.todayTotal

\* a report that is not a finite non-negative number
Malformed(summary) ==
  summary.typeofTotal # "number" \/ summary.totalActiveSeconds < 0

\* C24: a sync whose reported seconds are negative, or not a number, is answered
\* with the validation error when it arrives, and no daily or hourly aggregate
\* changes while it is being handled.
C24_NegativeRejected ==
  [][/\ (sync.pc = "idle" /\ sync'.pc # "idle" /\ Malformed(sync'.summary)) =>
          (sync'.pc = "done" /\ sync'.response.status = 400)
     /\ (sync.pc # "idle" /\ Malformed(sync.summary)) =>
          /\ dailyActivities' = dailyActivities
          /\ hourlyActivities' = hourlyActivities]_vars

\* C25: when a write of updateActivity (daily or hourly) has failed, the daily
\* and the hourly aggregates are what they were when the request arrived, and
\* the sync is answered as failed.
C25_MergeAllOrNothing ==
  /\ (job[FirstProc].pc = "done" /\ job[FirstProc].result # "ok") =>
       /\ dailyActivities = sync.before.dailyActivities
       /\ hourlyActivities = sync.before.hourlyActivities
  /\ (sync.pc = "done" /\ ~Malformed(sync.summary) /\ ~sync.updated) =>
       ~sync.response.success

\* the seconds of a row, and of a key of one of its maps; 0 when absent
TotalAt(table, key) == IF key \in DOMAIN table THEN table[key].totalSeconds ELSE 0
ProjectAt(table, key, k) ==
  IF key \in DOMAIN table THEN Get(table[key].projects, k) ELSE 0
LanguageAt(table, key, k) ==
  IF key \in DOMAIN table THEN Get(table[key].languages, k) ELSE 0

\* the hourly row of key holds what it held when the request arrived plus the
\* report
HourlyMerged(key, report) ==
  LET before == sync.before.hourlyActivities IN
    /\ TotalAt(hourlyActivities, key) = TotalAt(before, key) + report.totalSeconds
    /\ \A k \in DOMAIN report.projects :
         ProjectAt(hourlyActivities, key, k) =
           ProjectAt(before, key, k) + report.projects[k]
    /\ \A k \in DOMAIN report.languages :
         LanguageAt(hourlyActivities, key, k) =
           LanguageAt(before, key, k) + report.languages[k]

\* C26: when updateActivity has succeeded for a report of zero or more seconds,
\* the hourly aggregate of the user for the date and UTC hour of the merge holds
\* the reported seconds and every reported project and language entry added to
\* what it held before.
C26_HourlyMergedAlike ==
  (/\ job[FirstProc].pc = "done"
   /\ job[FirstProc].result = "ok"
   /\ job[FirstProc].report.totalSeconds >= 0) =>
    \E t \in {job[FirstProc].now, now} :
      HourlyMerged(<<job[FirstProc].userId, getDateKey(t), getUTCHours(t)>>,
                   job[FirstProc].report)

\* C28: no step removes a daily aggregate or lowers its total, and no total is
\* negative.
C28_TotalNeverDecreases ==
  [][/\ \A key \in DOMAIN dailyActivities :
          /\ key \in DOMAIN dailyActivities'
          /\ dailyActivities'[key].totalSeconds >= dailyActivities[key].totalSeconds
     /\ \A key \in DOMAIN dailyActivities' :
          dailyActivities'[key].totalSeconds >= 0]_vars

\* C27: a message is stored only when, at that moment, the sender has the
\* recipient among its friends.
C27_StoredOnlyBetweenFriends ==
  [][Len(messages') > Len(messages) =>
       LET m == messages'[Len(messages')]
       IN Includes(friends[m.fromUserId], m.toUserId)]_vars

\* the step is a markMessagesRead of the socket event or of the messages route
MarkStep == chat.pc = "idle" /\ chat'.event \in {"mark_read", "get_messages"}

\* C29: no message is removed; a readAt that is set never changes; a message
\* changes only by a markMessagesRead(userId, fromUserId), which sets the readAt
\* of the unread messages from fromUserId to userId to the time of the call and
\* changes nothing else.
C29_ReadAtSetOnce ==
  [][/\ Len(messages') >= Len(messages)
     /\ \A i \in DOMAIN messages :
          /\ messages[i].readAt # 0 => messages'[i] = messages[i]
          /\ messages'[i] # messages[i] =>
               /\ MarkStep
               /\ messages[i].toUserId = chat'.userId
               /\ messages[i].fromUserId = chat'.toUserId
               /\ messages'[i] = [messages[i] EXCEPT !.readAt = now']
          /\ (/\ MarkStep
              /\ messages[i].toUserId = chat'.userId
              /\ messages[i].fromUserId = chat'.toUserId
              /\ messages[i].readAt = 0) => messages'[i].readAt = now'
     /\ MarkStep => now' > 0]_vars

\* a markMessagesRead has just run at a time later than the readAt of a message
\* of its pair, with an unread message of another pair in the table
C29_Witness ==
  /\ chat.pc = "done"
  /\ chat.event \in {"mark_read", "get_messages"}
  /\ \E i \in DOMAIN messages :
       /\ messages[i].toUserId = chat.userId
       /\ messages[i].fromUserId = chat.toUserId
       /\ messages[i].readAt # 0
       /\ messages[i].readAt < now
  /\ \E j \in DOMAIN messages :
       /\ <<messages[j].toUserId, messages[j].fromUserId>> #
            <<chat.userId, chat.toUserId>>
       /\ messages[j].readAt = 0

\* user u has an hourly aggregate with seconds above 0 at one of the hours
ActiveAtHours(u, hours) ==
  \E k \in DOMAIN hourlyActivities :
    k[1] = u /\ k[3] \in hours /\ hourlyActivities[k].totalSeconds > 0

\* the check c returns id iff it was not unlocked at the call and met holds
ReturnedIff(c, id, met) ==
  Includes(c.newlyUnlocked, id) <=>
    (c.userId \in DOMAIN users /\ id \notin UnlockedIn(c.atCall, c.userId) /\ met)

\* C31: a check returns night_owl iff it was not unlocked and the user has an
\* hourly aggregate with seconds above 0 at an hour of 0..4, and early_bird iff
\* it has one at hour 5 or 6; a write of updateHourlyActivity changes only the
\* row of the UTC hour of the clock.
C31_NightAndEarly ==
  [][/\ unlock[FirstProc].pc = "done" =>
          /\ ReturnedIff(unlock[FirstProc], "night_owl",
                         ActiveAtHours(unlock[FirstProc].userId, 0..4))
          /\ ReturnedIff(unlock[FirstProc], "early_bird",
                         ActiveAtHours(unlock[FirstProc].userId, {5, 6}))
     /\ \A k \in DOMAIN hourlyActivities' :
          (k \notin DOMAIN hourlyActivities \/ hourlyActivities'[k] # hourlyActivities[k])
            => (k[2] = getDateKey(now) /\ k[3] = getUTCHours(now))]_vars

\* a check has returned early_bird and not night_owl for a user whose only
\* early-hours aggregate is the one a merge wrote at hour 5
C31_Witness ==
  /\ unlock[FirstProc].pc = "done"
  /\ Includes(unlock[FirstProc].newlyUnlocked, "early_bird")
  /\ ~Includes(unlock[FirstProc].newlyUnlocked, "night_owl")
  /\ "night_owl" \notin UnlockedIn(userAchievements, unlock[FirstProc].userId)
  /\ reports.count > 0
  /\ \A k \in DOMAIN hourlyActivities :
       (k[1] = unlock[FirstProc].userId /\ k[3] < 12) => k[3] = 5

\* user u has a daily aggregate with seconds above 0 whose date falls on the
\* day of the week weekday (0 Sunday .. 6 Saturday; date 0 is a Thursday)
ActiveOnWeekday(u, weekday) ==
  \E k \in DOMAIN dailyActivities :
    /\ k[1] = u
    /\ dailyActivities[k].totalSeconds > 0
    /\ (k[2] + 4) % 7 = weekday

\* C32: a check returns weekend_warrior iff it was not unlocked and the user
\* has a daily aggregate with seconds above 0 dated a Saturday and one dated a
\* Sunday.
C32_WeekendCoding ==
  unlock[FirstProc].pc = "done" =>
    ReturnedIff(unlock[FirstProc], "weekend_warrior",
                /\ ActiveOnWeekday(unlock[FirstProc].userId, 6)
                /\ ActiveOnWeekday(unlock[FirstProc].userId, 0))

\* the place of key k in the iteration order
Place(order, k) == CHOOSE i \in DOMAIN order : order[i] = k

\* surfaced is the key of m that a feed may show: none when m is empty or no
\* key has seconds; otherwise a key with the most seconds, the first of those
\* in the iteration order
Surfaces(m, order, surfaced) ==
  IF \A k \in DOMAIN m : m[k] = 0
  THEN surfaced = "undefined"
  ELSE surfaced # "undefined" =>
         /\ surfaced \in DOMAIN m
         /\ \A k \in DOMAIN m :
              /\ m[surfaced] >= m[k]
              /\ m[k] = m[surfaced] => Place(order, surfaced) <= Place(order, k)

\* C33: in every answered friend list, the project and the language of a record
\* are, if present, keys of the friend's aggregate of today with the most
\* seconds, the first such key in the iteration order; none is present when the
\* map is empty or every key has 0 seconds.
C33_TopKeySurfaced ==
  Answered =>
    \A i \in DOMAIN feed.result :
      LET row == RowAt(dailyActivities, TodayOf(feed.result[i].id)) IN
        /\ Surfaces(row.projects, feed.order, feed.result[i].currentProject)
        /\ Surfaces(row.languages, feed.order, feed.result[i].currentLanguage)

\* a list whose keys were iterated from "rust" to "app" shows "web" for a
\* friend whose projects "app" and "web" have the same seconds
C33_Witness ==
  /\ Answered
  /\ Place(feed.order, "web") < Place(feed.order, "app")
  /\ \E i \in DOMAIN feed.result :
       LET row == RowAt(dailyActivities, TodayOf(feed.result[i].id)) IN
         /\ feed.result[i].currentProject = "web"
         /\ DOMAIN row.projects = {"app", "web"}
         /\ row.projects["app"] = row.projects["web"]
         /\ row.projects["app"] > 0

\* C34: no two users have names that are equal ignoring case, and a createUser
\* for a name that is taken (ignoring case) when it is called fails.
C34_UniqueUsernames ==
  /\ \A u, v \in DOMAIN users : LOWER(users[u]) = LOWER(users[v]) => u = v
  /\ \A p \in Procs :
       (call[p].op = "createUser" /\ call[p].pc = "done" /\ call[p].result = "ok") =>
         \A u \in DOMAIN users :
           LOWER(users[u]) = LOWER(users[call[p].userId]) => u = call[p].userId

\* C35: no request between two users who are friends, in either direction of
\* the edge, is pending.
C35_NoPendingBetweenFriends ==
  \A a, b \in UserIds :
    (Includes(friends[a], b) \/ Includes(friends[b], a)) => PendingBetween(a, b) = {}

\* C36: two users of whom one has the other as a friend have an accepted
\* request between them.
C36_EdgeHasAcceptedRequest ==
  \A a, b \in UserIds :
    (a # b /\ Includes(friends[a], b)) =>
      \E r \in DOMAIN friendRequests :
        /\ {friendRequests[r].fromUserId, friendRequests[r].toUserId} = {a, b}
        /\ friendRequests[r].status = "accepted"

\* the sum of the seconds of the hourly aggregates of user u on date d
RECURSIVE HourlySum(_, _, _)
HourlySum(u, d, hours) ==
  IF hours = {} THEN 0
  ELSE LET h == CHOOSE x \in hours : TRUE
       IN TotalAt(hourlyActivities, <<u, d, h>>) + HourlySum(u, d, hours \ {h})

\* C37: in the PostgreSQL store, when no merge is under way, the total of every
\* (user, date) daily aggregate equals the sum of the totals of that user's
\* hourly aggregates of that date, a missing row counting 0.
C37_DailyEqualsHourlySum ==
  (store = "pg" /\ job[FirstProc].pc \in {"idle", "done"}) =>
    \A u \in UserIds :
      \A d \in {k[2] : k \in DOMAIN dailyActivities} \cup
               {k[2] : k \in DOMAIN hourlyActivities} :
        TotalAt(dailyActivities, <<u, d>>) = HourlySum(u, d, 0..23)

\* ---- C38
\* the status of friend f in a list
StatusIn(result, f) ==
  LET i == CHOOSE i \in DOMAIN result : result[i].id = f IN result[i].status
OnList(result, f) == \E i \in DOMAIN result : result[i].id = f
\* the aggregates of user f among rows
RowsOfUser(rows, f) == [k \in {x \in DOMAIN rows : x[1] = f} |-> rows[k]]
\* the list follows another list that was answered to the same user
Successive == Answered /\ feed.before.userId = feed.userId
\* f shared activity at both lists and no merge touched f's aggregates between
SharesAndNoMerge(f) ==
  /\ OnList(feed.before.result, f) /\ OnList(feed.result, f)
  /\ feed.before.seen.settings[f].shareActivity
  /\ feed.seen.settings[f].shareActivity
  /\ RowsOfUser(feed.before.seen.rows, f) = RowsOfUser(feed.seen.rows, f)
\* the time of the last merge of f (0 when there is none)
LastMerge(f) ==
  LET rows == RowsOfUser(feed.seen.rows, f)
  IN IF DOMAIN rows = {} THEN 0
     ELSE LET k == CHOOSE k \in DOMAIN rows :
                     \A x \in DOMAIN rows : rows[k].lastUpdate >= rows[x].lastUpdate
          IN rows[k].lastUpdate
\* the longest offline threshold of the two stores
LongestThreshold == memOfflineThreshold

\* C38: for a friend who shares activity and gets no merge between two
\* successive friend lists, the status in the later list is not nearer to online
\* than in the earlier one (online, then idle, then offline); and once the
\* offline threshold has passed since the friend's last merge every list shows
\* the friend offline.
C38_StatusOnlyDecays ==
  /\ Successive =>
       \A f \in Listed :
         SharesAndNoMerge(f) =>
           statusOrder(StatusIn(feed.result, f)) >=
             statusOrder(StatusIn(feed.before.result, f))
  /\ Answered =>
       \A f \in Listed :
         (/\ OnList(feed.result, f)
          /\ feed.seen.settings[f].shareActivity
          /\ feed.now >= LastMerge(f) + LongestThreshold) =>
           StatusIn(feed.result, f) = "offline"

\* a list that shows a sharing friend idle is followed, on the same UTC day and
\* without a merge, by one that shows the friend offline
C38_Witness ==
  /\ Successive
  /\ \E f \in Listed :
       /\ SharesAndNoMerge(f)
       /\ HasToday(f)
       /\ StatusIn(feed.before.result, f) = "idle"
       /\ StatusIn(feed.result, f) = "offline"

\* ---- C39
\* the settings request that was answered last: success for userId, flag, value
Acknowledged(userId, flag, value) ==
  LET c == call[FirstProc] IN
    /\ c.pc = "done" /\ c.op = "patchSettings" /\ c.result = "success"
    /\ c.userId = userId /\ c.flag = flag /\ c.value = value
\* the record honours the flag being false
Honours(record, flag) ==
  CASE flag = "shareActivity" -> record = BlankActivity(record.id)
    [] flag = "shareProjectName" -> record.currentProject = Undefined
    [] OTHER -> record.currentLanguage = Undefined

\* C39: once a settings request that sets shareActivity, shareProjectName or
\* shareLanguage to false has been answered with success for user U, a friend
\* list built afterwards shows U blanked, respectively without project or
\* without language.
C39_UpdateHonoured ==
  Answered =>
    \A i \in DOMAIN feed.result :
      \A flag \in SharingFlags :
        Acknowledged(feed.result[i].id, flag, FALSE) => Honours(feed.result[i], flag)

\* ---- C40
\* C40: over achievement checks of one user whose steps may overlap, a check
\* returns an achievement as newly unlocked only if its own INSERT added the
\* unlock record, so that no achievement is returned by two checks.
C40_ReturnedOnlyByInserter ==
  \A p \in Procs :
    unlock[p].pc = "done" =>
      \A i \in DOMAIN unlock[p].newlyUnlocked :
        unlock[p].newlyUnlocked[i] \in unlock[p].inserted

====
